---- MODULE Spec2Model ----
(***************************************************************************)
(* Host side of the WiFi raw command/response correlator and event         *)
(* dispatcher (main/wifi_raw.c), together with the transport queues and    *)
(* the slave-side responder it talks to.                                   *)
(*                                                                         *)
(* Caller threads run the four command functions; the transport delivery   *)
(* context runs on_cmd_response.  Every access to shared state             *)
(* (s_resp_event, s_last_response, s_rx_cb, the transport) is a step of    *)
(* its own, so the interleavings of callers and delivery are explored.     *)
(* Purely local code (argument checks, building the command record, the    *)
(* log calls) is folded into the step that precedes it.                    *)
(*                                                                         *)
(* Variables marked "history" record what happened (which return           *)
(* statement produced the result, how often the transport was called ...). *)
(* They are never read by an action's guard or by the program state's      *)
(* update.  The src field of a message in flight is history as well: it    *)
(* names the call the message belongs to and is dropped by the memcpy.     *)
(*                                                                         *)
(* Several specifications share the state: Spec (one application thread,  *)
(* the whole command API, foreign messages on the response tag), ConcSpec  *)
(* (two threads in the command functions with no lock), EvSpec (one thread *)
(* registering consumers and issuing a command while events and responses  *)
(* are delivered), NestSpec (a consumer that issues a command from the     *)
(* delivery context), BootSpec (wifi_raw_init step by step, then events),  *)
(* TxSpec (the record wifi_raw_80211_tx builds, over its arguments) and    *)
(* ViewSpec (the length checks of on_promisc_pkt, over delivered and       *)
(* declared lengths).  The variables of a part that a specification does   *)
(* not exercise keep their initial values in it.  The transport's delivery *)
(* task runs on_cmd_response and on_promisc_pkt one message at a time.     *)
(*                                                                         *)
(* The host application around the command API has specifications of its   *)
(* own: WifiSpec (wifi_init_sta, wifi_connect and wifi_event_handler of     *)
(* main/app_main.c, the main task beside the event loop task), OtaSpec      *)
(* (try_slave_ota over several boots), FlasherSpec (the write loop of the   *)
(* OTA flasher's app_main) and BufSpec (wifi_raw_80211_tx statement by      *)
(* statement, for the life of its command buffer).                         *)
(*                                                                         *)
(* The FreeRTOS event group is modelled by what xEventGroupClearBits,      *)
(* xEventGroupSetBits and xEventGroupWaitBits (clear on exit) do to the    *)
(* one bit in use: SetBits releases a blocked waiter and clears the bit    *)
(* again on its behalf; a waiter whose timeout has run out samples the bit *)
(* once more when it runs, and takes it if it has been set meanwhile.      *)
(***************************************************************************)
EXTENDS Integers, Sequences, FiniteSets, TLC

\* ---------------------------------------------------------------- bounds
\* Messages the transport delivers on the event tag in one run.
MaxEvents == 2
\* Command calls two application threads make between them in one run of
\* the concurrent specification.
MaxConcCalls == 3
\* API calls (commands and registrations) an application thread makes in
\* one run.
MaxCalls == 2
\* Messages put on the response tag by something other than the responder
\* answering a command (duplicates, short or foreign records).
MaxInject == 1
\* Ticks the model gives to pdMS_TO_TICKS(5000).
WaitTicks == 2
\* Events the WiFi driver posts on its own in one run (disconnects, got-IP).
MaxWifiEvents == 6
\* Events the driver may have waiting in the event loop's queue.
MaxWifiQueue == 1
\* Ticks the model gives to pdMS_TO_TICKS(30000).
WifiWaitTicks == 2
\* Flash sectors the model gives to the slave_fw partition.
MaxPartSectors == 2
\* Boots of the host in one run.
MaxBoots == 3
\* Whole chunks in the largest firmware image the flasher embeds.
MaxFwChunks == 3

\* ------------------------------------------------------- program constants
ESP_OK == 0
ESP_FAIL == -1
ESP_ERR_NO_MEM == 257
ESP_ERR_INVALID_ARG == 258
ESP_ERR_INVALID_STATE == 259
ESP_ERR_TIMEOUT == 263

WIFI_RAW_MSG_SET_PROMISCUOUS == 256
WIFI_RAW_MSG_SET_CHANNEL == 257
WIFI_RAW_MSG_SET_FILTER == 258
WIFI_RAW_MSG_80211_TX == 259
WIFI_RAW_MSG_CMD_RESPONSE == 384
WIFI_RAW_MSG_PROMISC_PKT == 512

\* Upper limit of len in wifi_raw_80211_tx.
MAX_TX_LEN == 4000

\* sizeof of the packed wire structs.
SizeofCmdSetPromiscuous == 1
SizeofCmdSetChannel == 1 + 1
SizeofCmdSetFilter == 4
SizeofCmd80211Tx == 1 + 1 + 2
SizeofCmdResponse == 2 + 4
SizeofPromiscPkt == 4 + 1 + 1 + 1 + 1 + 4 + 2

CmdTags ==
  { WIFI_RAW_MSG_SET_PROMISCUOUS, WIFI_RAW_MSG_SET_CHANNEL,
    WIFI_RAW_MSG_SET_FILTER, WIFI_RAW_MSG_80211_TX }

\* ------------------------------------------------------------ input sets
AllCallers == {1, 2}
SingleCaller == {1}

NULL == "NULL"
\* No Event Record is being handled.
NoPkt == "none"
\* Values of the buffer argument of wifi_raw_80211_tx.
Buffers == {NULL, "frame"}
\* Buffers an injection is called with in the specification of the record
\* it builds: NULL, or a buffer named by its contents.
TxBuffers == Buffers \cup {"ramp"}
\* Byte i (from 1) of a caller's buffer.
BufByte(buffer, i) ==
  IF buffer = "ramp" THEN i % 256 ELSE (200 + 3 * i) % 256
\* Values of ifx (uint8_t) and of len in that specification.
TxIfxs == {0, 1, 255}
TxLenArgs == {-1, 0, 1, 2, 255, 256, MAX_TX_LEN, MAX_TX_LEN + 1}
\* No injection is being made.
NoTx == "none"
\* Values of the len argument: both sides of both limits.
TxLens == {-1, 0, 1, MAX_TX_LEN, MAX_TX_LEN + 1}
\* Consumers an application may register.
Consumers == {NULL, "cb1", "cb2"}
\* What esp_hosted_register_custom_callback returns when it fails.
RegErrs == {ESP_FAIL, ESP_ERR_INVALID_ARG}
\* wifi_raw_init has not returned.
NoRet == "none"
\* What esp_hosted_send_custom_data returns when it fails.
SendErrs == {ESP_FAIL, ESP_ERR_INVALID_STATE}
\* Status codes a native driver call on the slave may produce (any esp_err_t).
StatusVals == {ESP_OK, ESP_ERR_TIMEOUT}
\* Messages on the response tag that answer no command of this run: a
\* record cut short by one byte, and well-formed records with a tag and a
\* status of their own.  src 0 marks them as nobody's answer.
Injected ==
  { [cmd_msg_id |-> WIFI_RAW_MSG_SET_PROMISCUOUS, status |-> ESP_OK,
     data_len |-> SizeofCmdResponse - 1, src |-> 0] }
  \cup
  { [cmd_msg_id |-> t, status |-> st, data_len |-> SizeofCmdResponse,
     src |-> 0] :
      t \in {WIFI_RAW_MSG_SET_PROMISCUOUS, WIFI_RAW_MSG_80211_TX},
      st \in {ESP_FAIL} }

\* Messages on the event tag.  len is the byte count the transport delivers
\* (data_len of on_promisc_pkt), data the bytes that follow the header in the
\* delivered buffer, data_len the length the header declares.
\* A full record with a 3-byte frame.
EvFrame3 ==
  [type |-> 0, rssi |-> -40, channel |-> 6, rate |-> 11, sig_mode |-> 1,
   rx_state |-> 0, data_len |-> 3, data |-> <<170, 187, 204>>,
   len |-> SizeofPromiscPkt + 3]
\* A record followed by one byte more than it declares.
EvPadded ==
  [type |-> 2, rssi |-> -90, channel |-> 11, rate |-> 0, sig_mode |-> 0,
   rx_state |-> 1, data_len |-> 1, data |-> <<85, 102>>,
   len |-> SizeofPromiscPkt + 1 + 1]
\* A delivery one byte short of the header.
EvShortHeader ==
  [type |-> 0, rssi |-> 0, channel |-> 1, rate |-> 0, sig_mode |-> 0,
   rx_state |-> 0, data_len |-> 0, data |-> <<>>,
   len |-> SizeofPromiscPkt - 1]
\* A record that declares 3 trailing bytes and is delivered with 2.
EvTruncated ==
  [type |-> 1, rssi |-> -60, channel |-> 1, rate |-> 2, sig_mode |-> 3,
   rx_state |-> 0, data_len |-> 3, data |-> <<17, 34>>,
   len |-> SizeofPromiscPkt + 2]
Events == {EvFrame3, EvPadded, EvShortHeader, EvTruncated}

\* Byte counts the transport delivers and trailing lengths a header declares
\* (uint16_t) in the specification of the length checks: around the header
\* size, around small frames, and at the top of the 16-bit range.
ViewLens ==
  {0, SizeofPromiscPkt - 1, SizeofPromiscPkt, SizeofPromiscPkt + 1,
   SizeofPromiscPkt + 2, SizeofPromiscPkt + 3, SizeofPromiscPkt + 65534,
   SizeofPromiscPkt + 65535}
ViewDeclared == {0, 1, 2, 3, 65534, 65535}
\* A delivery of len bytes whose header declares data_len trailing bytes;
\* byte i after the header is i mod 256.
EvOfLen(len, data_len) ==
  [type |-> 0, rssi |-> -70, channel |-> 1, rate |-> 0, sig_mode |-> 0,
   rx_state |-> 0, data_len |-> data_len,
   data |-> [i \in 1..(IF len > SizeofPromiscPkt
                         THEN len - SizeofPromiscPkt ELSE 0) |-> i % 256],
   len |-> len]

VARIABLES
  s_resp_event,     \* RESP_RECEIVED_BIT of the event group
  s_last_response,  \* [cmd_msg_id, status]
  s_rx_cb,          \* registered consumer or NULL
  pc,               \* per caller: position in the command function
                    \* ("done": the call has returned, result is its value)
  kind,             \* per caller: tag of the command being issued
  size,             \* per caller: size of the command record it holds
  elapsed,          \* per caller: ticks spent blocked in xEventGroupWaitBits
                    \* (0 when it is not blocked)
  result,           \* per caller: value returned by the last call
  cmdq,             \* transport, host -> slave
  respq,            \* transport, slave -> host, response tag
  dpc,              \* delivery context: position in on_cmd_response or
                    \* on_promisc_pkt ("incb": inside the consumer)
  nCalls,           \* calls issued so far
  nInject,          \* foreign messages put on the response tag so far
  path,             \* history: return statement that produced result
  callNo,           \* history: number of the caller's current call
  sends,            \* history: transport send invocations in this call
  sendRet,          \* history: what the transport returned in this call
  waited,           \* history: this call entered xEventGroupWaitBits
  delivered,        \* history: a well-formed response arrived since the clear
  readTag,          \* history: cmd_msg_id found at line 72
  warned,           \* history: the mismatch warning was logged
  deliveredStatus,  \* history: status of the last response that arrived in
                    \* the caller's window
  staleAtClear,     \* history: the signal was set when this call cleared it
  tookAtEntry,      \* history: the wait found the signal already set
  answered,         \* history: the responder has answered this call's command
  ownStatus,        \* history: the status it answered with
  slotSrc,          \* history: call whose response s_last_response holds
  ownDelivered,     \* history: the response to this very call has raised the
                    \* signal after the call's clear
  lost,             \* history: how another caller removed the signal this
                    \* call's response had raised ("no", "clear", "wait")
  hazClear,         \* history: some call timed out after another call's clear
                    \* erased the signal of its delivered response
  hazRead,          \* history: some call, its own response delivered, returned
                    \* the status of another caller's response
  pkt,              \* delivery context: Event Record on_promisc_pkt is handling
  cbAtCheck,        \* delivery context: s_rx_cb as line 37 read it
  nEvents,          \* event deliveries so far
  evLog,            \* history: event deliveries and the consumer registered
                    \* when each began
  evPhase,          \* history: what the command call was doing when each
                    \* began (kept by the specification that asks for it)
  calls,            \* history: consumer invocations, in order
  regArg,           \* history: argument of the last wifi_raw_register_rx_cb
  regAt,            \* history: event deliveries begun before that call
  ipc,              \* position in wifi_raw_init ("done": it has returned)
  groupCreated,     \* s_resp_event holds an event group (is not NULL)
  handlers,         \* tags with a handler registered at the transport
  initRet,          \* value wifi_raw_init returned
  regLog,           \* history: registrations attempted and their results
  txArgs,           \* arguments of the injection whose record is being built
  txSent,           \* what that injection passed to the transport
  txpc,             \* how far it has come ("arg", "nomem": it has returned
                    \* that error; "sent": it has called the transport)
  vIn,              \* one delivery to on_promisc_pkt looked at on its own:
                    \* the registered consumer and the message
  vOut,             \* the view passed to the consumer for it
  vpc,              \* position of on_promisc_pkt in that delivery
  wifi,             \* WiFi bring-up of the host application (fields below)
  ota,              \* try_slave_ota and the slave_fw partition
  flasher,          \* app_main of the OTA flasher
  txbuf             \* one wifi_raw_80211_tx call followed for its buffer

progVars == <<s_resp_event, s_last_response, s_rx_cb, pc, kind, size, elapsed,
              result, cmdq, respq, dpc, nCalls, nInject>>
histVars == <<path, callNo, sends, sendRet, waited, delivered, readTag,
              warned, deliveredStatus, staleAtClear, tookAtEntry, answered, ownStatus>>
concVars == <<slotSrc, ownDelivered, lost, hazClear, hazRead>>
evVars == <<pkt, cbAtCheck, nEvents, evLog, evPhase, calls, regArg, regAt>>
initVars == <<ipc, groupCreated, handlers, initRet, regLog>>
coreVars == <<progVars, histVars, concVars, evVars>>
txVars == <<txArgs, txSent, txpc>>
viewVars == <<vIn, vOut, vpc>>
hostVars == <<wifi, ota, flasher, txbuf>>
auxVars == <<initVars, txVars, viewVars, hostVars>>
besidesWifi == <<coreVars, initVars, txVars, viewVars, ota, flasher, txbuf>>
besidesOta == <<coreVars, initVars, txVars, viewVars, wifi, flasher, txbuf>>
besidesFlasher == <<coreVars, initVars, txVars, viewVars, wifi, ota, txbuf>>
besidesBuf == <<coreVars, initVars, txVars, viewVars, wifi, ota, flasher>>
vars == <<coreVars, auxVars>>

\* The host application around the command API.  Each of its parts is one
\* record, "idle" in the specifications that do not run the part; the
\* fields are the part's statics and locals, named as in the source.
\* reconnect attempts counted by wifi_event_handler
s_retry_num == wifi.s_retry_num
\* bits set in the WiFi event group
s_wifi_event_group == wifi.s_wifi_event_group
\* main task: position in wifi_init_sta / wifi_connect
wpc == wifi.wpc
\* SSID wifi_connect is called with
attempt == wifi.attempt
\* "bits": what xEventGroupWaitBits returned (line 87)
connBits == wifi.connBits
\* ticks the main task has been blocked in that wait
wElapsed == wifi.wElapsed
\* esp_wifi_start has been called, esp_wifi_stop not
wifiOn == wifi.wifiOn
\* events waiting in the default event loop
evLoopQ == wifi.evLoopQ
\* event loop task: position in wifi_event_handler
hpc == wifi.hpc
\* s_retry_num as the test at line 56 loaded it
hseen == wifi.hseen
\* events the driver has posted on its own so far
nWifiEvents == wifi.nWifiEvents
\* history: esp_wifi_connect calls of the disconnect
\* branch since s_retry_num was last reset
reconnects == wifi.reconnects
\* history: the wifi_connect calls that have returned
connectLog == wifi.connectLog
\* value wifi_init_sta returned
staRet == wifi.staRet

\* position in try_slave_ota
opc == ota.opc
\* the partition table has a slave_fw partition
partPresent == ota.partPresent
\* part->size
partSize == ota.partSize
\* byte 0 of the slave_fw partition in flash
flashFirst == ota.flashFirst
\* the local "magic" of try_slave_ota
magic == ota.magic
\* "offset" of the chunk loop
otaOffset == ota.otaOffset
\* history: esp_hosted_slave_ota_* calls of this boot and
\* their results
otaLog == ota.otaLog
\* history: number of the current boot
boots == ota.boots
\* history: last boot in which OTA activate succeeded
otaOkBoot == ota.otaOkBoot

\* OTA flasher: position in its app_main
fpc == flasher.fpc
\* "fw_size", "total"
fwSize == flasher.fwSize
\* "offset" of its write loop
fOffset == flasher.fOffset
\* history: its esp_hosted_slave_ota_* calls, with the
\* offset and length of each write
fLog == flasher.fLog

\* position in a wifi_raw_80211_tx call followed for
\* its command buffer
bpc == txbuf.bpc
\* buffer and len of that call
bArgs == txbuf.bArgs
\* the block: NULL, "held" (allocated) or "freed"
cmd_buf == txbuf.cmd_buf
\* "ret" of the transport send (line 164)
bSendRet == txbuf.bSendRet
\* value the call returned
bRet == txbuf.bRet
\* history: what the call did, in order
bLog == txbuf.bLog

\* ------------------------------------------------------------------ Init
\* Statics are zero-initialised, no call is in progress and the transport
\* is empty.
CoreInit ==
  /\ s_resp_event = FALSE
  /\ s_last_response = [cmd_msg_id |-> 0, status |-> 0]
  /\ s_rx_cb = NULL
  /\ pc = [c \in AllCallers |-> "idle"]
  /\ kind = [c \in AllCallers |-> 0]
  /\ size = [c \in AllCallers |-> 0]
  /\ elapsed = [c \in AllCallers |-> 0]
  /\ result = [c \in AllCallers |-> ESP_OK]
  /\ cmdq = <<>>
  /\ respq = <<>>
  /\ dpc = "idle"
  /\ nCalls = 0
  /\ nInject = 0
  /\ path = [c \in AllCallers |-> "none"]
  /\ callNo = [c \in AllCallers |-> 0]
  /\ sends = [c \in AllCallers |-> 0]
  /\ sendRet = [c \in AllCallers |-> ESP_OK]
  /\ waited = [c \in AllCallers |-> FALSE]
  /\ delivered = [c \in AllCallers |-> FALSE]
  /\ readTag = [c \in AllCallers |-> 0]
  /\ warned = [c \in AllCallers |-> FALSE]
  /\ deliveredStatus = [c \in AllCallers |-> ESP_OK]
  /\ staleAtClear = [c \in AllCallers |-> FALSE]
  /\ tookAtEntry = [c \in AllCallers |-> FALSE]
  /\ answered = [c \in AllCallers |-> FALSE]
  /\ ownStatus = [c \in AllCallers |-> ESP_OK]
  /\ slotSrc = 0
  /\ ownDelivered = [c \in AllCallers |-> FALSE]
  /\ lost = [c \in AllCallers |-> "no"]
  /\ hazClear = FALSE
  /\ hazRead = FALSE
  /\ pkt = NoPkt
  /\ cbAtCheck = NULL
  /\ nEvents = 0
  /\ evLog = <<>>
  /\ evPhase = <<>>
  /\ calls = <<>>
  /\ regArg = NULL
  /\ regAt = 0

\* wifi_raw_init has returned ESP_OK.
InitDone ==
  /\ ipc = "done"
  /\ groupCreated = TRUE
  /\ handlers = {WIFI_RAW_MSG_CMD_RESPONSE, WIFI_RAW_MSG_PROMISC_PKT}
  /\ initRet = ESP_OK
  /\ regLog = << [tag |-> WIFI_RAW_MSG_CMD_RESPONSE, ret |-> ESP_OK],
                 [tag |-> WIFI_RAW_MSG_PROMISC_PKT, ret |-> ESP_OK] >>

\* No injection's record is being looked at.
TxIdle == txArgs = NoTx /\ txSent = NoTx /\ txpc = "idle"

\* No single delivery is being looked at.
ViewIdle == vIn = NoPkt /\ vOut = NoPkt /\ vpc = "idle"

\* WiFi retry limit of the station bring-up (app_main.c).
WIFI_MAX_RETRY == 5

\* wifi_init_sta has not been called.
WifiIdle == wifi = "idle"

\* First byte of an ESP application image (line 540 of app_main.c).
ESP_IMAGE_MAGIC == 233
\* A byte of erased flash.
FLASH_ERASED == 255
\* "chunk_size" of try_slave_ota.
OTA_CHUNK_SIZE == 1400
\* Offset beyond which a block of erased flash ends the image (0x1000).
ALL_FF_FLOOR == 4096
\* Size of a flash sector; partitions are whole sectors.
FLASH_SECTOR == 4096

\* Bytes an uninitialised uint8_t may hold.
UninitBytes == {0, ESP_IMAGE_MAGIC, FLASH_ERASED}

\* Results of the esp_hosted_slave_ota_* calls.
OtaRets == {ESP_OK, ESP_FAIL}

\* Sizes of the slave_fw partition: whole flash sectors.
PartSizes == {k * FLASH_SECTOR : k \in 1..MaxPartSectors}

\* try_slave_ota is not running.
OtaIdle == ota = "idle"

\* "chunk_size" of the OTA flasher (line 182 of wifi_raw.h).
FLASHER_CHUNK_SIZE == 1400

\* The flasher is not running.
FlasherIdle == flasher = "idle"

\* No wifi_raw_80211_tx call is being followed.
BufIdle == txbuf = "idle"

\* Nothing of the host application beside the command API is running, and
\* no call is followed for its buffer.
HostIdle == WifiIdle /\ OtaIdle /\ FlasherIdle /\ BufIdle

\* wifi_raw_init has created the event group (all bits clear) and registered
\* both handlers.
Init == CoreInit /\ InitDone /\ TxIdle /\ ViewIdle /\ HostIdle

\* ------------------------------------------------- FreeRTOS event group
\* Mutant: the clear is missing.
xEventGroupClearBits_noop(bits) == bits

\* xEventGroupClearBits(s_resp_event, RESP_RECEIVED_BIT): the new bit value.
xEventGroupClearBits(bits) == FALSE

\* Callers blocked inside xEventGroupWaitBits.
Blocked == {c \in AllCallers : pc[c] = "blocked"}

\* Callers between their clear and the return of their wait: a response
\* arriving now arrives "since the clear and before the wait ended".
InWindow == {c \in AllCallers : pc[c] \in {"send", "wait", "blocked", "expired"}}

\* ------------------------------------------------------- command functions
\* Mutant: the upper limit of len is not checked.
ValidTxArgs_noUpper(buffer, len) == ~(buffer = NULL \/ len <= 0)

\* The argument check of wifi_raw_80211_tx.
ValidTxArgs(buffer, len) == ~(buffer = NULL \/ len <= 0 \/ len > MAX_TX_LEN)

\* A caller enters a command function and runs its local prologue; it ends
\* at nextpc with the command's tag and the size of its record.
EnterWith(limit, c, tag, sz, nextpc, res, p) ==
  /\ pc[c] \in {"idle", "done"}
  /\ nCalls < limit
  /\ nCalls' = nCalls + 1
  /\ pc' = [pc EXCEPT ![c] = nextpc]
  /\ kind' = [kind EXCEPT ![c] = tag]
  /\ size' = [size EXCEPT ![c] = sz]
  /\ result' = [result EXCEPT ![c] = res]
  /\ path' = [path EXCEPT ![c] = p]
  /\ callNo' = [callNo EXCEPT ![c] = nCalls + 1]
  /\ sends' = [sends EXCEPT ![c] = 0]
  /\ sendRet' = [sendRet EXCEPT ![c] = ESP_OK]
  /\ waited' = [waited EXCEPT ![c] = FALSE]
  /\ delivered' = [delivered EXCEPT ![c] = FALSE]
  /\ readTag' = [readTag EXCEPT ![c] = 0]
  /\ warned' = [warned EXCEPT ![c] = FALSE]
  /\ deliveredStatus' = [deliveredStatus EXCEPT ![c] = ESP_OK]
  /\ staleAtClear' = [staleAtClear EXCEPT ![c] = FALSE]
  /\ tookAtEntry' = [tookAtEntry EXCEPT ![c] = FALSE]
  /\ elapsed' = [elapsed EXCEPT ![c] = 0]
  /\ answered' = [answered EXCEPT ![c] = FALSE]
  /\ ownStatus' = [ownStatus EXCEPT ![c] = ESP_OK]
  /\ ownDelivered' = [ownDelivered EXCEPT ![c] = FALSE]
  /\ lost' = [lost EXCEPT ![c] = "no"]
  /\ UNCHANGED <<s_resp_event, s_last_response, s_rx_cb, cmdq, respq, dpc,
                 nInject, slotSrc, hazClear, hazRead, evVars, auxVars>>

\* The same under the call budget of the single-caller specification.
Enter(c, tag, sz, nextpc, res, p) ==
  EnterWith(MaxCalls, c, tag, sz, nextpc, res, p)

wifi_raw_set_promiscuous(c) ==
  Enter(c, WIFI_RAW_MSG_SET_PROMISCUOUS, SizeofCmdSetPromiscuous, "clear",
        result[c], "none")

wifi_raw_set_channel(c) ==
  Enter(c, WIFI_RAW_MSG_SET_CHANNEL, SizeofCmdSetChannel, "clear",
        result[c], "none")

\* Mutant: the filter command goes out under the channel command's tag.
wifi_raw_set_filter_channelTag(c) ==
  Enter(c, WIFI_RAW_MSG_SET_CHANNEL, SizeofCmdSetFilter, "clear",
        result[c], "none")

wifi_raw_set_filter(c) ==
  Enter(c, WIFI_RAW_MSG_SET_FILTER, SizeofCmdSetFilter, "clear",
        result[c], "none")

\* Lines 147-161: argument check, malloc, building the record.
wifi_raw_80211_tx(c, buffer, len, mallocOk) ==
  IF ~ValidTxArgs(buffer, len)
    THEN Enter(c, WIFI_RAW_MSG_80211_TX, 0, "done", ESP_ERR_INVALID_ARG, "arg")
    ELSE IF ~mallocOk
      THEN Enter(c, WIFI_RAW_MSG_80211_TX, 0, "done", ESP_ERR_NO_MEM, "nomem")
      ELSE Enter(c, WIFI_RAW_MSG_80211_TX, SizeofCmd80211Tx + len, "clear",
                 result[c], "none")

\* History: the callers other than c whose own response had raised the
\* signal and who have not taken it yet lose it when c removes it.
LostTo(c, removed, how) ==
  [c1 \in AllCallers |->
     IF removed /\ c1 # c /\ c1 \in InWindow /\ ownDelivered[c1]
        /\ lost[c1] = "no"
       THEN how ELSE lost[c1]]

\* xEventGroupClearBits at the head of every command function.
ClearBits(c) ==
  /\ pc[c] = "clear"
  /\ s_resp_event' = xEventGroupClearBits(s_resp_event)
  /\ pc' = [pc EXCEPT ![c] = "send"]
  /\ delivered' = [delivered EXCEPT ![c] = FALSE]
  /\ staleAtClear' = [staleAtClear EXCEPT ![c] = s_resp_event]
  /\ UNCHANGED <<s_last_response, s_rx_cb, kind, size, elapsed, result, cmdq,
                 respq, dpc, nCalls, nInject, path, callNo, sends, sendRet,
                 waited, readTag, warned, deliveredStatus, tookAtEntry,
                 answered, ownStatus>>
  /\ lost' = LostTo(c, s_resp_event /\ ~s_resp_event', "clear")
  /\ UNCHANGED <<slotSrc, ownDelivered, hazClear, hazRead, evVars, auxVars>>

\* Mutant: the result of the send is ignored.
ProceedToWait_always(ret) == TRUE

\* "if (ret != ESP_OK) return ret;": TRUE when the call goes on to wait.
ProceedToWait(ret) == ret = ESP_OK

\* The value returned when the send failed.
SendFailResult(ret) == ret

\* esp_hosted_send_custom_data, free(cmd_buf) where there is one, and the
\* test of the send's result.  bitsAfter is the value of the signal when the
\* step ends.
SendWith(c, bitsAfter) ==
  /\ pc[c] = "send"
  /\ \E ret \in {ESP_OK} \cup SendErrs :
       /\ sends' = [sends EXCEPT ![c] = @ + 1]
       /\ sendRet' = [sendRet EXCEPT ![c] = ret]
       /\ cmdq' = IF ret = ESP_OK
                    THEN Append(cmdq, [tag |-> kind[c], size |-> size[c],
                                       src |-> callNo[c]])
                    ELSE cmdq
       /\ IF ProceedToWait(ret)
            THEN /\ pc' = [pc EXCEPT ![c] = "wait"]
                 /\ UNCHANGED <<result, path>>
            ELSE /\ pc' = [pc EXCEPT ![c] = "done"]
                 /\ result' = [result EXCEPT ![c] = SendFailResult(ret)]
                 /\ path' = [path EXCEPT ![c] = "send"]
  /\ size' = [size EXCEPT ![c] = 0]
  /\ s_resp_event' = bitsAfter
  /\ UNCHANGED <<s_last_response, s_rx_cb, kind, elapsed, respq, dpc,
                 nCalls, nInject, callNo, waited, delivered, readTag, warned,
                 deliveredStatus, staleAtClear, tookAtEntry, answered, ownStatus>>
  /\ UNCHANGED <<concVars, evVars, auxVars>>

\* Mutant: the signal is cleared after the send instead of before it.
Send_thenClear(c) == SendWith(c, FALSE)

Send(c) == SendWith(c, s_resp_event)

\* Entry of xEventGroupWaitBits(.., pdTRUE, pdTRUE, timeout): the bit is
\* taken (and cleared) if it is set, otherwise the caller blocks.
WaitEnter(c) ==
  /\ pc[c] = "wait"
  /\ waited' = [waited EXCEPT ![c] = TRUE]
  /\ tookAtEntry' = [tookAtEntry EXCEPT ![c] = s_resp_event]
  /\ IF s_resp_event
       THEN /\ s_resp_event' = FALSE
            /\ pc' = [pc EXCEPT ![c] = "read"]
            /\ UNCHANGED elapsed
       ELSE /\ pc' = [pc EXCEPT ![c] = "blocked"]
            /\ elapsed' = [elapsed EXCEPT ![c] = 0]
            /\ UNCHANGED s_resp_event
  /\ UNCHANGED <<s_last_response, s_rx_cb, kind, size, result, cmdq, respq,
                 dpc, nCalls, nInject, path, callNo, sends, sendRet,
                 delivered, readTag, warned, deliveredStatus, staleAtClear,
                 answered, ownStatus>>
  /\ lost' = LostTo(c, s_resp_event, "wait")
  /\ UNCHANGED <<slotSrc, ownDelivered, hazClear, hazRead, evVars, auxVars>>

\* Mutant: the wait has no timeout (portMAX_DELAY).
Tick_noExpiry ==
  /\ Blocked # {}
  /\ \E c \in Blocked : elapsed[c] < WaitTicks
  /\ elapsed' = [c \in AllCallers |->
                   IF c \in Blocked /\ elapsed[c] < WaitTicks
                     THEN elapsed[c] + 1 ELSE elapsed[c]]
  /\ UNCHANGED <<s_resp_event, s_last_response, s_rx_cb, pc, kind, size,
                 result, cmdq, respq, dpc, nCalls, nInject, histVars,
                 concVars, evVars, auxVars>>

\* One tick of the FreeRTOS clock: every blocked caller's wait grows older,
\* and a caller whose timeout has run out leaves the blocked state.
Tick ==
  /\ Blocked # {}
  /\ elapsed' = [c \in AllCallers |->
                   IF c \in Blocked /\ elapsed[c] + 1 < WaitTicks
                     THEN elapsed[c] + 1 ELSE 0]
  /\ pc' = [c \in AllCallers |->
              IF c \in Blocked /\ elapsed[c] + 1 >= WaitTicks
                THEN "expired" ELSE pc[c]]
  /\ UNCHANGED <<s_resp_event, s_last_response, s_rx_cb, kind, size, result,
                 cmdq, respq, dpc, nCalls, nInject, histVars, concVars,
                 evVars, auxVars>>

\* Mutant: the timeout is reported as a generic failure.
WaitResult_timeoutAsFail(expected_cmd, bits, last) ==
  IF ~bits
    THEN [result |-> ESP_FAIL, path |-> "timeout", warned |-> FALSE]
    ELSE [result |-> last.status, path |-> "status",
          warned |-> (last.cmd_msg_id # expected_cmd)]

\* Mutant: a response with a foreign tag is rejected, not tolerated.
WaitResult_rejectMismatch(expected_cmd, bits, last) ==
  IF ~bits \/ last.cmd_msg_id # expected_cmd
    THEN [result |-> ESP_ERR_TIMEOUT, path |-> "timeout", warned |-> bits]
    ELSE [result |-> last.status, path |-> "status", warned |-> FALSE]

\* Lines 67-69 and 72-77 of wait_cmd_response, given the bits that
\* xEventGroupWaitBits returned and the slot as the caller reads it.
WaitResult(expected_cmd, bits, last) ==
  IF ~bits
    THEN [result |-> ESP_ERR_TIMEOUT, path |-> "timeout", warned |-> FALSE]
    ELSE [result |-> last.status, path |-> "status",
          warned |-> (last.cmd_msg_id # expected_cmd)]

\* Mutant: a call that times out deregisters the consumer.
WaitExpire_dropsConsumer(c) ==
  /\ pc[c] = "expired"
  /\ IF s_resp_event
       THEN /\ s_resp_event' = FALSE
            /\ pc' = [pc EXCEPT ![c] = "read"]
            /\ UNCHANGED <<result, path, s_rx_cb>>
       ELSE /\ pc' = [pc EXCEPT ![c] = "done"]
            /\ result' = [result EXCEPT ![c] = ESP_ERR_TIMEOUT]
            /\ path' = [path EXCEPT ![c] = "timeout"]
            /\ s_rx_cb' = NULL
            /\ UNCHANGED s_resp_event
  /\ UNCHANGED <<s_last_response, kind, size, elapsed, cmdq, respq,
                 dpc, nCalls, nInject, callNo, sends, sendRet, waited,
                 delivered, readTag, warned, deliveredStatus, staleAtClear,
                 tookAtEntry, answered, ownStatus>>
  /\ lost' = LostTo(c, s_resp_event, "wait")
  /\ hazClear' = (hazClear \/ (~s_resp_event /\ ownDelivered[c]
                                  /\ lost[c] = "clear"))
  /\ UNCHANGED <<slotSrc, ownDelivered, hazRead, evVars, auxVars>>

\* The timed-out caller runs again: xEventGroupWaitBits samples the bits once
\* more, takes the bit if it has been set meanwhile, and otherwise
\* wait_cmd_response returns the timeout.
WaitExpire(c) ==
  /\ pc[c] = "expired"
  /\ IF s_resp_event
       THEN /\ s_resp_event' = FALSE
            /\ pc' = [pc EXCEPT ![c] = "read"]
            /\ UNCHANGED <<result, path>>
       ELSE /\ pc' = [pc EXCEPT ![c] = "done"]
            /\ result' = [result EXCEPT ![c] =
                            WaitResult(kind[c], FALSE, s_last_response).result]
            /\ path' = [path EXCEPT ![c] =
                          WaitResult(kind[c], FALSE, s_last_response).path]
            /\ UNCHANGED s_resp_event
  /\ UNCHANGED <<s_last_response, s_rx_cb, kind, size, elapsed, cmdq, respq,
                 dpc, nCalls, nInject, callNo, sends, sendRet, waited,
                 delivered, readTag, warned, deliveredStatus, staleAtClear,
                 tookAtEntry, answered, ownStatus>>
  /\ lost' = LostTo(c, s_resp_event, "wait")
  /\ hazClear' = (hazClear \/ (~s_resp_event /\ ownDelivered[c]
                                  /\ lost[c] = "clear"))
  /\ UNCHANGED <<slotSrc, ownDelivered, hazRead, evVars, auxVars>>

\* The woken caller reads s_last_response (lines 72-77).
ReadResponse(c) ==
  /\ pc[c] = "read"
  /\ LET r == WaitResult(kind[c], TRUE, s_last_response) IN
       /\ result' = [result EXCEPT ![c] = r.result]
       /\ path' = [path EXCEPT ![c] = r.path]
       /\ warned' = [warned EXCEPT ![c] = r.warned]
  /\ readTag' = [readTag EXCEPT ![c] = s_last_response.cmd_msg_id]
  /\ pc' = [pc EXCEPT ![c] = "done"]
  /\ UNCHANGED <<s_resp_event, s_last_response, s_rx_cb, kind, size, elapsed,
                 cmdq, respq, dpc, nCalls, nInject, callNo, sends, sendRet,
                 waited, delivered, deliveredStatus, staleAtClear, tookAtEntry,
                 answered, ownStatus>>
  /\ hazRead' = (hazRead \/ (ownDelivered[c] /\ slotSrc # 0
                                /\ \E c1 \in AllCallers \ {c} :
                                      callNo[c1] = slotSrc))
  /\ UNCHANGED <<slotSrc, ownDelivered, lost, hazClear, evVars, auxVars>>

\* Mutant: a consumer already registered is kept.
wifi_raw_register_rx_cb_keepFirst(c, cb) ==
  /\ pc[c] \in {"idle", "done"}
  /\ nCalls < MaxCalls
  /\ nCalls' = nCalls + 1
  /\ s_rx_cb' = IF s_rx_cb = NULL THEN cb ELSE s_rx_cb
  /\ regArg' = cb
  /\ regAt' = nEvents
  /\ UNCHANGED <<s_resp_event, s_last_response, pc, kind, size, elapsed,
                 result, cmdq, respq, dpc, nInject, histVars, concVars,
                 pkt, cbAtCheck, nEvents, evLog, evPhase, calls, auxVars>>

\* wifi_raw_register_rx_cb.
wifi_raw_register_rx_cb(c, cb) ==
  /\ pc[c] \in {"idle", "done"}
  /\ nCalls < MaxCalls
  /\ nCalls' = nCalls + 1
  /\ s_rx_cb' = cb
  /\ regArg' = cb
  /\ regAt' = nEvents
  /\ UNCHANGED <<s_resp_event, s_last_response, pc, kind, size, elapsed,
                 result, cmdq, respq, dpc, nInject, histVars, concVars,
                 pkt, cbAtCheck, nEvents, evLog, evPhase, calls, auxVars>>

\* ------------------------------------------------------ delivery context
\* Mutant: a response is stored only while a call is waiting for one.
OnCmdResponseCopy_onlyIfWaiting(m) ==
  /\ dpc = "idle"
  /\ IF m.data_len >= SizeofCmdResponse /\ InWindow # {}
       THEN /\ s_last_response' = [cmd_msg_id |-> m.cmd_msg_id,
                                   status |-> m.status]
            /\ dpc' = "set"
            /\ slotSrc' = m.src
       ELSE UNCHANGED <<s_last_response, dpc, slotSrc>>
  /\ UNCHANGED <<s_resp_event, s_rx_cb, pc, kind, size, elapsed, result, cmdq,
                 nCalls, histVars, ownDelivered, lost, hazClear, hazRead,
                 evVars, auxVars>>

\* Mutant: the signal is raised together with the store, not after it.
OnCmdResponseCopy_signalFirst(m) ==
  /\ dpc = "idle"
  /\ IF m.data_len >= SizeofCmdResponse
       THEN /\ s_last_response' = [cmd_msg_id |-> m.cmd_msg_id,
                                   status |-> m.status]
            /\ s_resp_event' = TRUE
            /\ dpc' = "set"
            /\ slotSrc' = m.src
       ELSE UNCHANGED <<s_last_response, s_resp_event, dpc, slotSrc>>
  /\ UNCHANGED <<s_rx_cb, pc, kind, size, elapsed, result, cmdq,
                 nCalls, histVars, ownDelivered, lost, hazClear, hazRead,
                 evVars, auxVars>>

\* Mutant: the length of the message is not checked.
OnCmdResponseCopy_noLengthCheck(m) ==
  /\ dpc = "idle"
  /\ s_last_response' = [cmd_msg_id |-> m.cmd_msg_id, status |-> m.status]
  /\ dpc' = "set"
  /\ slotSrc' = m.src
  /\ UNCHANGED <<s_resp_event, s_rx_cb, pc, kind, size, elapsed, result, cmdq,
                 nCalls, histVars, ownDelivered, lost, hazClear, hazRead,
                 evVars, auxVars>>

\* on_cmd_response(msg_id, data, data_len), first half: the length check
\* and the memcpy into s_last_response.
OnCmdResponseCopy(m) ==
  /\ dpc = "idle"
  /\ IF m.data_len >= SizeofCmdResponse
       THEN /\ s_last_response' = [cmd_msg_id |-> m.cmd_msg_id,
                                   status |-> m.status]
            /\ dpc' = "set"
            /\ slotSrc' = m.src
       ELSE UNCHANGED <<s_last_response, dpc, slotSrc>>
  /\ UNCHANGED <<s_resp_event, s_rx_cb, pc, kind, size, elapsed, result, cmdq,
                 nCalls, histVars, ownDelivered, lost, hazClear, hazRead,
                 evVars, auxVars>>

\* The transport hands the oldest response in flight to on_cmd_response.
DeliverResponse ==
  /\ respq # <<>>
  /\ OnCmdResponseCopy(Head(respq))
  /\ respq' = Tail(respq)
  /\ UNCHANGED nInject

\* The transport hands on_cmd_response a message that answers no command of
\* this run (it arrives ahead of whatever is still in flight).
DeliverInjected ==
  /\ nInject < MaxInject
  /\ \E m \in Injected : OnCmdResponseCopy(m)
  /\ nInject' = nInject + 1
  /\ UNCHANGED respq

\* on_cmd_response, second half: xEventGroupSetBits.  A caller blocked on
\* the bit is released with the bit in its return value and, because it
\* waits with clear-on-exit, the bit is cleared again before SetBits ends;
\* a caller that is not blocked then finds no signal (history: lost).
OnCmdResponseSetBits ==
  /\ dpc = "set"
  /\ dpc' = "idle"
  /\ IF Blocked # {}
       THEN /\ pc' = [c \in AllCallers |->
                        IF c \in Blocked THEN "read" ELSE pc[c]]
            /\ elapsed' = [c \in AllCallers |-> 0]
            /\ s_resp_event' = FALSE
       ELSE /\ s_resp_event' = TRUE
            /\ UNCHANGED <<pc, elapsed>>
  /\ delivered' = [c \in AllCallers |->
                     IF c \in InWindow THEN TRUE ELSE delivered[c]]
  /\ deliveredStatus' = [c \in AllCallers |->
                           IF c \in InWindow THEN s_last_response.status
                                             ELSE deliveredStatus[c]]
  /\ UNCHANGED <<s_last_response, s_rx_cb, kind, size, result, cmdq,
                 respq, nCalls, nInject, path, callNo, sends, sendRet, waited,
                 readTag, warned, staleAtClear, tookAtEntry, answered, ownStatus>>
  /\ ownDelivered' = [c \in AllCallers |->
                        ownDelivered[c]
                          \/ (c \in InWindow /\ slotSrc = callNo[c])]
  /\ lost' = [c \in AllCallers |->
                IF Blocked # {} /\ c \in InWindow \ Blocked
                   /\ slotSrc = callNo[c] /\ lost[c] = "no"
                  THEN "wait" ELSE lost[c]]
  /\ UNCHANGED <<slotSrc, hazClear, hazRead, evVars, auxVars>>

\* ------------------------------------------------------ event dispatcher
\* Mutant: the declared trailing length is not checked against the delivery.
EventAccepted_headerOnly(cb, m) ==
  ~(cb = NULL \/ m.len < SizeofPromiscPkt)

\* Mutant: the test for a registered consumer is missing.
EventAccepted_noNullCheck(cb, m) ==
  /\ ~(m.len < SizeofPromiscPkt)
  /\ ~(m.len < SizeofPromiscPkt + m.data_len)

\* Lines 37-45 of on_promisc_pkt: TRUE when the record goes on to the
\* consumer, cb being s_rx_cb as line 37 reads it.
EventAccepted(cb, m) ==
  /\ ~(cb = NULL \/ m.len < SizeofPromiscPkt)
  /\ ~(m.len < SizeofPromiscPkt + m.data_len)

\* Mutant: the view reports the delivered remainder as the payload length.
RxView_remainder(m) ==
  [type |-> m.type, rssi |-> m.rssi, channel |-> m.channel, rate |-> m.rate,
   sig_mode |-> m.sig_mode, rx_state |-> m.rx_state,
   payload |-> m.data, payload_len |-> m.len - SizeofPromiscPkt]

\* Lines 47-56: the wifi_raw_rx_pkt_t built from the record.  payload points
\* at pkt->data; the bytes the consumer may read through it are the first
\* payload_len of them.
RxView(m) ==
  [type |-> m.type, rssi |-> m.rssi, channel |-> m.channel, rate |-> m.rate,
   sig_mode |-> m.sig_mode, rx_state |-> m.rx_state,
   payload |-> SubSeq(m.data, 1, m.data_len), payload_len |-> m.data_len]

\* History: what a command call is doing when an event delivery begins.
CallPhase ==
  IF \E c \in AllCallers : pc[c] \in {"blocked", "expired"}
    THEN "waiting"
    ELSE IF \E c \in AllCallers : pc[c] = "done" /\ path[c] = "timeout"
      THEN "timedout"
      ELSE "other"

\* on_promisc_pkt(msg_id, data, data_len) up to line 45.  logPhase: the
\* history of the call's position is kept.
OnPromiscPktCheckWith(m, logPhase) ==
  /\ dpc = "idle"
  /\ nEvents < MaxEvents
  /\ nEvents' = nEvents + 1
  /\ evLog' = Append(evLog, [ev |-> m, cb |-> s_rx_cb])
  /\ evPhase' = IF logPhase THEN Append(evPhase, CallPhase) ELSE evPhase
  /\ IF EventAccepted(s_rx_cb, m)
       THEN /\ dpc' = "invoke"
            /\ pkt' = m
            /\ cbAtCheck' = s_rx_cb
       ELSE UNCHANGED <<dpc, pkt, cbAtCheck>>
  /\ UNCHANGED <<s_resp_event, s_last_response, s_rx_cb, pc, kind, size,
                 elapsed, result, cmdq, respq, nCalls, nInject, histVars,
                 concVars, calls, regArg, regAt, auxVars>>

OnPromiscPktCheck(m) == OnPromiscPktCheckWith(m, FALSE)

\* The transport hands on_promisc_pkt a message on the event tag.
DeliverEvent == \E m \in Events : OnPromiscPktCheck(m)

\* Mutant: a record equal to the one passed on last is not passed on again.
OnPromiscPktInvoke_coalesce ==
  /\ dpc = "invoke"
  /\ dpc' = "idle"
  /\ calls' = IF calls # <<>> /\ calls[Len(calls)].rx = RxView(pkt)
                THEN calls
                ELSE Append(calls, [cb |-> cbAtCheck, rx |-> RxView(pkt)])
  /\ pkt' = NoPkt
  /\ cbAtCheck' = NULL
  /\ UNCHANGED <<s_resp_event, s_last_response, s_rx_cb, pc, kind, size,
                 elapsed, result, cmdq, respq, nCalls, nInject, histVars,
                 concVars, nEvents, evLog, evPhase, regArg, regAt, auxVars>>

\* Mutant: the event handler raises the response signal as well.
OnPromiscPktInvoke_raisesSignal ==
  /\ dpc = "invoke"
  /\ dpc' = "idle"
  /\ calls' = Append(calls, [cb |-> cbAtCheck, rx |-> RxView(pkt)])
  /\ s_resp_event' = TRUE
  /\ pkt' = NoPkt
  /\ cbAtCheck' = NULL
  /\ UNCHANGED <<s_last_response, s_rx_cb, pc, kind, size,
                 elapsed, result, cmdq, respq, nCalls, nInject, histVars,
                 concVars, nEvents, evLog, evPhase, regArg, regAt, auxVars>>

\* Line 58, s_rx_cb(&rx).  s_rx_cb is a plain static that another task may
\* write meanwhile: the build may call through the value line 37 loaded or
\* load it again.  A call through NULL ends the program.
OnPromiscPktInvoke ==
  /\ dpc = "invoke"
  /\ \E cb \in {cbAtCheck, s_rx_cb} :
       IF cb = NULL
         THEN /\ dpc' = "crashed"
              /\ UNCHANGED calls
         ELSE /\ dpc' = "idle"
              /\ calls' = Append(calls, [cb |-> cb, rx |-> RxView(pkt)])
  /\ pkt' = NoPkt
  /\ cbAtCheck' = NULL
  /\ UNCHANGED <<s_resp_event, s_last_response, s_rx_cb, pc, kind, size,
                 elapsed, result, cmdq, respq, nCalls, nInject, histVars,
                 concVars, nEvents, evLog, evPhase, regArg, regAt, auxVars>>

\* ----------------------------------------------------- slave and transport
\* Mutant: the slave answers only the commands its native call accepted.
Respond_silentOnFailure ==
  /\ cmdq # <<>>
  /\ cmdq' = Tail(cmdq)
  /\ \E st \in StatusVals :
       /\ respq' = IF st = ESP_OK
                     THEN Append(respq, [cmd_msg_id |-> Head(cmdq).tag,
                                         status |-> st,
                                         data_len |-> SizeofCmdResponse,
                                         src |-> Head(cmdq).src])
                     ELSE respq
       /\ answered' = [c \in AllCallers |->
                          answered[c] \/ callNo[c] = Head(cmdq).src]
       /\ ownStatus' = [c \in AllCallers |->
                           IF callNo[c] = Head(cmdq).src THEN st
                                                         ELSE ownStatus[c]]
  /\ UNCHANGED <<s_resp_event, s_last_response, s_rx_cb, pc, kind, size,
                 elapsed, result, dpc, nCalls, nInject, path, callNo, sends,
                 sendRet, waited, delivered, readTag, warned, deliveredStatus,
                 staleAtClear, tookAtEntry, concVars, evVars, auxVars>>

\* The slave's command handler: one response per command, carrying the
\* command's tag and the native call's result.
Respond ==
  /\ cmdq # <<>>
  /\ cmdq' = Tail(cmdq)
  /\ \E st \in StatusVals :
       /\ respq' = Append(respq, [cmd_msg_id |-> Head(cmdq).tag, status |-> st,
                                  data_len |-> SizeofCmdResponse,
                                  src |-> Head(cmdq).src])
       /\ answered' = [c \in AllCallers |->
                          answered[c] \/ callNo[c] = Head(cmdq).src]
       /\ ownStatus' = [c \in AllCallers |->
                           IF callNo[c] = Head(cmdq).src THEN st
                                                         ELSE ownStatus[c]]
  /\ UNCHANGED <<s_resp_event, s_last_response, s_rx_cb, pc, kind, size,
                 elapsed, result, dpc, nCalls, nInject, path, callNo, sends,
                 sendRet, waited, delivered, readTag, warned, deliveredStatus,
                 staleAtClear, tookAtEntry, concVars, evVars, auxVars>>

\* ------------------------------------------------------ specifications
CallerStep(c) ==
  \/ ClearBits(c)
  \/ Send(c)
  \/ WaitEnter(c)
  \/ WaitExpire(c)
  \/ ReadResponse(c)

Call(c) ==
  \/ wifi_raw_set_promiscuous(c)
  \/ wifi_raw_set_channel(c)
  \/ wifi_raw_set_filter(c)
  \/ \E b \in Buffers, len \in TxLens, m \in BOOLEAN :
       wifi_raw_80211_tx(c, b, len, m)
  \/ \E cb \in Consumers : wifi_raw_register_rx_cb(c, cb)

Next ==
  \/ \E c \in SingleCaller : Call(c)
  \/ \E c \in SingleCaller : CallerStep(c)
  \/ Tick
  \/ DeliverResponse
  \/ DeliverInjected
  \/ OnCmdResponseSetBits
  \/ Respond

Spec == Init /\ [][Next]_vars

\* A caller thread that is inside a command function keeps running, and the
\* tick interrupt keeps coming.  Nothing obliges the application to make
\* another call, the slave to answer or the transport to deliver.
FairSpec ==
  /\ Spec
  /\ WF_vars(Tick)
  /\ \A c \in SingleCaller : WF_vars(CallerStep(c))

\* ------------------------------------------- two unsynchronised callers
\* Two application threads use the command API with no lock between them:
\* thread 1 switches promiscuous mode, thread 2 sets the channel.
ConcCall(c) ==
  \/ /\ c = 1
     /\ EnterWith(MaxConcCalls, c, WIFI_RAW_MSG_SET_PROMISCUOUS,
                  SizeofCmdSetPromiscuous, "clear", result[c], "none")
  \/ /\ c = 2
     /\ EnterWith(MaxConcCalls, c, WIFI_RAW_MSG_SET_CHANNEL,
                  SizeofCmdSetChannel, "clear", result[c], "none")

ConcNext ==
  \/ \E c \in AllCallers : ConcCall(c)
  \/ \E c \in AllCallers : CallerStep(c)
  \/ Tick
  \/ DeliverResponse
  \/ OnCmdResponseSetBits
  \/ Respond

ConcSpec == Init /\ [][ConcNext]_vars

\* ------------------------------------ event dispatch beside the commands
\* The application thread registers consumers and switches promiscuous
\* mode while the transport delivers events and responses.  Nothing runs
\* once the program has ended in a call through NULL.
Running == dpc # "crashed"

EvRegister(c, cb) == Running /\ wifi_raw_register_rx_cb(c, cb)
EvCommand(c) == Running /\ wifi_raw_set_promiscuous(c)
EvCallerStep(c) == Running /\ CallerStep(c)
EvTick == Running /\ Tick
EvRespond == Running /\ Respond

EvNext ==
  \/ \E c \in SingleCaller, cb \in Consumers : EvRegister(c, cb)
  \/ \E c \in SingleCaller : EvCommand(c)
  \/ \E c \in SingleCaller : EvCallerStep(c)
  \/ EvTick
  \/ EvRespond
  \/ DeliverResponse
  \/ OnCmdResponseSetBits
  \/ DeliverEvent
  \/ OnPromiscPktInvoke

EvSpec == Init /\ [][EvNext]_vars

\* ------------------------------------- events around a timed-out call
\* The application registers its consumer and then issues commands (as the
\* packet monitor does) while events arrive; the position of the call at
\* each delivery is kept as history.
MonRegister(c) == EvRegister(c, "cb1")

MonDeliverEvent ==
  \E m \in {EvFrame3, EvPadded, EvTruncated} : OnPromiscPktCheckWith(m, TRUE)

MonNext ==
  \/ \E c \in SingleCaller : MonRegister(c)
  \/ \E c \in SingleCaller : EvCommand(c)
  \/ \E c \in SingleCaller : EvCallerStep(c)
  \/ EvTick
  \/ EvRespond
  \/ DeliverResponse
  \/ OnCmdResponseSetBits
  \/ MonDeliverEvent
  \/ OnPromiscPktInvoke

MonSpec == Init /\ [][MonNext]_vars

\* ------------------------------- a command call made by the consumer
\* The consumer runs in the delivery context (line 58).  Here it calls
\* wifi_raw_set_channel before it returns; the command function then runs in
\* the delivery context, which takes up no other message until the consumer
\* has returned.  The delivery context is caller 2 of the command functions,
\* the application thread caller 1.
DeliveryCaller == 2

\* Line 58: the consumer is entered.
OnPromiscPktCallConsumer ==
  /\ dpc = "invoke"
  /\ \E cb \in {cbAtCheck, s_rx_cb} :
       IF cb = NULL
         THEN /\ dpc' = "crashed"
              /\ UNCHANGED calls
         ELSE /\ dpc' = "incb"
              /\ calls' = Append(calls, [cb |-> cb, rx |-> RxView(pkt)])
  /\ pkt' = NoPkt
  /\ cbAtCheck' = NULL
  /\ UNCHANGED <<s_resp_event, s_last_response, s_rx_cb, pc, kind, size,
                 elapsed, result, cmdq, respq, nCalls, nInject, histVars,
                 concVars, nEvents, evLog, evPhase, regArg, regAt, auxVars>>

\* The consumer calls wifi_raw_set_channel.
ConsumerCallsCommand ==
  /\ dpc = "incb"
  /\ wifi_raw_set_channel(DeliveryCaller)

\* The command function goes on in the delivery context.
ConsumerStep == dpc = "incb" /\ CallerStep(DeliveryCaller)

\* The consumer returns, and with it on_promisc_pkt.
ConsumerReturns ==
  /\ dpc = "incb"
  /\ pc[DeliveryCaller] \in {"idle", "done"}
  /\ dpc' = "idle"
  /\ UNCHANGED <<s_resp_event, s_last_response, s_rx_cb, pc, kind, size,
                 elapsed, result, cmdq, respq, nCalls, nInject, histVars,
                 concVars, evVars, auxVars>>

NestNext ==
  \/ \E c \in SingleCaller, cb \in Consumers : EvRegister(c, cb)
  \/ DeliverEvent
  \/ OnPromiscPktCallConsumer
  \/ ConsumerCallsCommand
  \/ ConsumerStep
  \/ ConsumerReturns
  \/ EvTick
  \/ EvRespond
  \/ DeliverResponse
  \/ OnCmdResponseSetBits

NestSpec == Init /\ [][NestNext]_vars

\* ---------------------------------------------------------- wifi_raw_init
\* Mutant: the result of a registration is not looked at.
RegisterFailed_never(ret) == FALSE

\* "if (ret != ESP_OK)" after esp_hosted_register_custom_callback.
RegisterFailed(ret) == ret # ESP_OK

\* Lines 86-89: xEventGroupCreate and the test of its result.
InitCreate ==
  /\ ipc = "start"
  /\ \E created \in BOOLEAN :
       /\ groupCreated' = created
       /\ IF ~created
            THEN ipc' = "done" /\ initRet' = ESP_ERR_NO_MEM
            ELSE ipc' = "reg_resp" /\ UNCHANGED initRet
  /\ UNCHANGED <<handlers, regLog, coreVars, txVars, viewVars, hostVars>>

\* Lines 93-97: the handler of the response tag.
InitRegisterResponse ==
  /\ ipc = "reg_resp"
  /\ \E ret \in {ESP_OK} \cup RegErrs :
       /\ regLog' = Append(regLog, [tag |-> WIFI_RAW_MSG_CMD_RESPONSE,
                                     ret |-> ret])
       /\ handlers' = IF ret = ESP_OK
                        THEN handlers \cup {WIFI_RAW_MSG_CMD_RESPONSE}
                        ELSE handlers
       /\ IF RegisterFailed(ret)
            THEN ipc' = "done" /\ initRet' = ret
            ELSE ipc' = "reg_ev" /\ UNCHANGED initRet
  /\ UNCHANGED <<groupCreated, coreVars, txVars, viewVars, hostVars>>

\* Lines 99-106: the handler of the event tag, and the return.
InitRegisterEvents ==
  /\ ipc = "reg_ev"
  /\ \E ret \in {ESP_OK} \cup RegErrs :
       /\ regLog' = Append(regLog, [tag |-> WIFI_RAW_MSG_PROMISC_PKT,
                                     ret |-> ret])
       /\ handlers' = IF ret = ESP_OK
                        THEN handlers \cup {WIFI_RAW_MSG_PROMISC_PKT}
                        ELSE handlers
       /\ ipc' = "done"
       /\ initRet' = IF RegisterFailed(ret) THEN ret ELSE ESP_OK
  /\ UNCHANGED <<groupCreated, coreVars, txVars, viewVars, hostVars>>

\* Before wifi_raw_init: nothing created, nothing registered.
BootInit ==
  /\ CoreInit
  /\ ipc = "start"
  /\ groupCreated = FALSE
  /\ handlers = {}
  /\ initRet = NoRet
  /\ regLog = <<>>
  /\ TxIdle /\ ViewIdle /\ HostIdle

\* The application goes on to register its consumer when wifi_raw_init has
\* returned ESP_OK; the transport hands events to on_promisc_pkt once that
\* handler is registered.
BootRegister(c, cb) ==
  /\ ipc = "done" /\ initRet = ESP_OK
  /\ EvRegister(c, cb)

BootDeliverEvent ==
  /\ WIFI_RAW_MSG_PROMISC_PKT \in handlers
  /\ DeliverEvent

BootNext ==
  \/ InitCreate
  \/ InitRegisterResponse
  \/ InitRegisterEvents
  \/ \E c \in SingleCaller, cb \in Consumers : BootRegister(c, cb)
  \/ BootDeliverEvent
  \/ OnPromiscPktInvoke

BootSpec == BootInit /\ [][BootNext]_vars

\* ------------------------------------- the record wifi_raw_80211_tx sends
\* Mutant: data_len is stored through an 8-bit cast.
BuildTxCmd_lenAsByte(ifx, buffer, len, en_sys_seq) ==
  [ifx |-> ifx,
   en_sys_seq |-> IF en_sys_seq THEN 1 ELSE 0,
   data_len |-> len % 256,
   data |-> [i \in 1..len |-> BufByte(buffer, i)]]

\* Lines 157-161: the wifi_raw_cmd_80211_tx_t written into cmd_buf.
\* data_len is (uint16_t)len, data the first len bytes of the buffer.
BuildTxCmd(ifx, buffer, len, en_sys_seq) ==
  [ifx |-> ifx,
   en_sys_seq |-> IF en_sys_seq THEN 1 ELSE 0,
   data_len |-> len % 65536,
   data |-> [i \in 1..len |-> BufByte(buffer, i)]]

\* The bytes of cmd_buf: the packed struct, data_len little-endian, then
\* the flexible array.
Packed80211Tx(cmd) ==
  <<cmd.ifx, cmd.en_sys_seq, cmd.data_len % 256, cmd.data_len \div 256>>
    \o cmd.data

\* wifi_raw_80211_tx from its entry to the call of the transport (lines
\* 147-164).
TxBuildAndSend ==
  /\ txpc = "call"
  /\ IF ~ValidTxArgs(txArgs.buffer, txArgs.len)
       THEN txpc' = "arg" /\ UNCHANGED txSent
       ELSE \E mallocOk \in BOOLEAN :
              IF ~mallocOk
                THEN txpc' = "nomem" /\ UNCHANGED txSent
                ELSE /\ txpc' = "sent"
                     /\ txSent' =
                          [tag |-> WIFI_RAW_MSG_80211_TX,
                           bytes |-> Packed80211Tx(
                                       BuildTxCmd(txArgs.ifx, txArgs.buffer,
                                                  txArgs.len,
                                                  txArgs.en_sys_seq)),
                           size |-> SizeofCmd80211Tx + txArgs.len]
  /\ UNCHANGED <<txArgs, coreVars, initVars, viewVars, hostVars>>

\* An injection is called with arguments of the caller's choice.
TxInit ==
  /\ CoreInit /\ InitDone /\ ViewIdle /\ HostIdle
  /\ txArgs \in [ifx : TxIfxs, buffer : TxBuffers, len : TxLenArgs,
                  en_sys_seq : BOOLEAN]
  /\ txSent = NoTx
  /\ txpc = "call"

TxNext == TxBuildAndSend

TxSpec == TxInit /\ [][TxNext]_vars

\* ------------------------------- the length checks of on_promisc_pkt
\* One delivery, the registered consumer and the message being any of the
\* combinations of delivered and declared length.
ViewInit ==
  /\ CoreInit /\ InitDone /\ TxIdle /\ HostIdle
  /\ vIn \in { [cb |-> cb, m |-> EvOfLen(len, declared)] :
                 cb \in {NULL, "cb1"}, len \in ViewLens,
                 declared \in ViewDeclared }
  /\ vOut = NoPkt
  /\ vpc = "check"

\* Lines 37-45: the two early returns.
ViewCheck ==
  /\ vpc = "check"
  /\ vpc' = IF EventAccepted(vIn.cb, vIn.m) THEN "invoke" ELSE "dropped"
  /\ UNCHANGED <<vIn, vOut, coreVars, initVars, txVars, hostVars>>

\* Lines 47-58: the view is built and passed to the consumer.
ViewInvoke ==
  /\ vpc = "invoke"
  /\ vOut' = RxView(vIn.m)
  /\ vpc' = "done"
  /\ UNCHANGED <<vIn, coreVars, initVars, txVars, hostVars>>

ViewNext == ViewCheck \/ ViewInvoke

ViewSpec == ViewInit /\ [][ViewNext]_vars

\* ------------------------------ WiFi station bring-up (main/app_main.c)
\* The main task runs wifi_init_sta and, inside it, wifi_connect; the
\* default event loop task runs wifi_event_handler, one event at a time.
\* s_retry_num is a plain int written by both tasks without a lock, so
\* every access to it is a step of its own.

\* Mutant: the retry test admits one attempt more.
RetryAllowed_inclusive(n) == n <= WIFI_MAX_RETRY

\* Line 56: "if (s_retry_num < WIFI_MAX_RETRY)".
RetryAllowed(n) == n < WIFI_MAX_RETRY

\* Mutant: the fallback SSID is tried whatever the primary attempt returned.
TryFallback_always(ret) == TRUE

\* Line 151: "if (ret != ESP_OK)" after wifi_connect(WIFI_SSID_PRIMARY).
TryFallback(ret) == ret # ESP_OK

\* Lines 91-98: what wifi_connect returns for the bits its wait returned.
ConnectResult(waited_bits) ==
  IF "CONNECTED" \in waited_bits THEN ESP_OK ELSE ESP_FAIL

\* Errors esp_wifi_init may return.
WifiInitErrs == {ESP_ERR_NO_MEM}

\* Events the driver posts on its own while WiFi is started.
DriverEvents == {"STA_DISCONNECTED", "GOT_IP"}

\* Lines 101-147 of wifi_init_sta: esp_wifi_init and its early return, the
\* event group, the handler registrations.
StaInit ==
  /\ wpc = "init"
  /\ \E ret \in {ESP_OK} \cup WifiInitErrs :
       wifi' = IF ret # ESP_OK
                 THEN [wifi EXCEPT !.wpc = "returned", !.staRet = ret]
                 ELSE [wifi EXCEPT !.wpc = "reset", !.attempt = "primary"]
  /\ UNCHANGED besidesWifi

\* Line 76 of wifi_connect: "s_retry_num = 0".
ConnectReset ==
  /\ wpc = "reset"
  /\ wifi' = [wifi EXCEPT !.s_retry_num = 0, !.reconnects = 0,
                          !.wpc = "clear"]
  /\ UNCHANGED besidesWifi

\* Line 77: both bits are cleared.
ConnectClear ==
  /\ wpc = "clear"
  /\ wifi' = [wifi EXCEPT !.s_wifi_event_group = {}, !.wpc = "start"]
  /\ UNCHANGED besidesWifi

\* Lines 79-85: esp_wifi_set_config and esp_wifi_start under ESP_ERROR_CHECK
\* (a failure aborts); the started driver posts WIFI_EVENT_STA_START.
ConnectStart ==
  /\ wpc = "start"
  /\ \E ok \in BOOLEAN :
       wifi' = IF ok
                 THEN [wifi EXCEPT !.wifiOn = TRUE,
                                   !.evLoopQ = Append(@, "STA_START"),
                                   !.wElapsed = 0,
                                   !.wpc = "wait"]
                 ELSE [wifi EXCEPT !.wpc = "aborted"]
  /\ UNCHANGED besidesWifi

\* Lines 87-89: xEventGroupWaitBits(CONNECTED | FAIL, pdFALSE, pdFALSE,
\* 30 s) returns as soon as either bit is set and leaves the bits alone.
WifiWaitReturn ==
  /\ wpc = "wait"
  /\ s_wifi_event_group # {}
  /\ wifi' = [wifi EXCEPT !.connBits = s_wifi_event_group, !.wpc = "test"]
  /\ UNCHANGED besidesWifi

\* A tick passes with the main task blocked.
WifiTick ==
  /\ wpc = "wait"
  /\ s_wifi_event_group = {}
  /\ wElapsed < WifiWaitTicks
  /\ wifi' = [wifi EXCEPT !.wElapsed = @ + 1]
  /\ UNCHANGED besidesWifi

\* The 30 seconds have run out: the wait returns the bits as they are when
\* the task runs again.
WifiWaitTimeout ==
  /\ wpc = "wait"
  /\ wElapsed = WifiWaitTicks
  /\ wifi' = [wifi EXCEPT !.connBits = s_wifi_event_group, !.wpc = "test"]
  /\ UNCHANGED besidesWifi

\* Lines 91-98: ESP_OK with the CONNECTED bit, else esp_wifi_stop and
\* ESP_FAIL.
ConnectReturn ==
  /\ wpc = "test"
  /\ LET ret == ConnectResult(connBits) IN
       wifi' = [wifi EXCEPT
                  !.wifiOn = IF ret = ESP_OK THEN @ ELSE FALSE,
                  !.connectLog = Append(@, [ssid |-> attempt,
                                            bits |-> connBits,
                                            ret |-> ret,
                                            stopped |-> ret # ESP_OK]),
                  !.wpc = "back"]
  /\ UNCHANGED besidesWifi

\* Lines 150-175 of wifi_init_sta: the fallback attempt after a failed
\* primary one, else the return.
StaDecide ==
  /\ wpc = "back"
  /\ LET ret == connectLog[Len(connectLog)].ret IN
       wifi' = IF attempt = "primary" /\ TryFallback(ret)
                 THEN [wifi EXCEPT !.attempt = "fallback", !.wpc = "reset"]
                 ELSE [wifi EXCEPT
                         !.staRet = IF ret # ESP_OK THEN ret ELSE ESP_OK,
                         !.wpc = "returned"]
  /\ UNCHANGED besidesWifi

\* The started driver posts a disconnect or a got-IP event.  Events already
\* posted stay in the loop's queue when WiFi is stopped.
DriverPost(e) ==
  /\ wifiOn
  /\ nWifiEvents < MaxWifiEvents
  /\ Len(evLoopQ) < MaxWifiQueue
  /\ wifi' = [wifi EXCEPT !.evLoopQ = Append(@, e), !.nWifiEvents = @ + 1]
  /\ UNCHANGED besidesWifi

\* Lines 53-54: WIFI_EVENT_STA_START, esp_wifi_connect.
HandleStaStart ==
  /\ hpc = "idle" /\ evLoopQ # <<>> /\ Head(evLoopQ) = "STA_START"
  /\ wifi' = [wifi EXCEPT !.evLoopQ = Tail(@)]
  /\ UNCHANGED besidesWifi

\* Lines 55-62: WIFI_EVENT_STA_DISCONNECTED, the retry test; either
\* esp_wifi_connect (the increment follows) or the FAIL bit.
HandleDisconnected ==
  /\ hpc = "idle" /\ evLoopQ # <<>> /\ Head(evLoopQ) = "STA_DISCONNECTED"
  /\ wifi' = IF RetryAllowed(s_retry_num)
               THEN [wifi EXCEPT !.evLoopQ = Tail(@),
                                 !.hseen = s_retry_num,
                                 !.hpc = "inc",
                                 !.reconnects = @ + 1]
               ELSE [wifi EXCEPT !.evLoopQ = Tail(@),
                                 !.s_wifi_event_group = @ \cup {"FAIL"}]
  /\ UNCHANGED besidesWifi

\* Line 58: "s_retry_num++".  The build may add one to the value the test
\* at line 56 loaded or to a value loaded anew.
HandleDisconnectedInc ==
  /\ hpc = "inc"
  /\ \E base \in {hseen, s_retry_num} :
       wifi' = [wifi EXCEPT !.s_retry_num = base + 1, !.hpc = "idle",
                            !.hseen = 0]
  /\ UNCHANGED besidesWifi

\* Lines 63-66: IP_EVENT_STA_GOT_IP, "s_retry_num = 0".
HandleGotIp ==
  /\ hpc = "idle" /\ evLoopQ # <<>> /\ Head(evLoopQ) = "GOT_IP"
  /\ wifi' = [wifi EXCEPT !.evLoopQ = Tail(@), !.s_retry_num = 0,
                          !.reconnects = 0, !.hpc = "gotip"]
  /\ UNCHANGED besidesWifi

\* Line 67: the CONNECTED bit.
HandleGotIpSetBits ==
  /\ hpc = "gotip"
  /\ wifi' = [wifi EXCEPT !.s_wifi_event_group = @ \cup {"CONNECTED"},
                          !.hpc = "idle"]
  /\ UNCHANGED besidesWifi

\* app_main calls wifi_init_sta (line 640): the statics are zero, no event
\* is waiting.
WifiInit ==
  /\ CoreInit /\ InitDone /\ TxIdle /\ ViewIdle
  /\ OtaIdle /\ FlasherIdle /\ BufIdle
  /\ wifi = [s_retry_num |-> 0, s_wifi_event_group |-> {}, wpc |-> "init",
             attempt |-> "none", connBits |-> {}, wElapsed |-> 0,
             wifiOn |-> FALSE, evLoopQ |-> <<>>, hpc |-> "idle", hseen |-> 0,
             nWifiEvents |-> 0, reconnects |-> 0, connectLog |-> <<>>,
             staRet |-> NoRet]

WifiNext ==
  \/ StaInit
  \/ ConnectReset
  \/ ConnectClear
  \/ ConnectStart
  \/ WifiWaitReturn
  \/ WifiTick
  \/ WifiWaitTimeout
  \/ ConnectReturn
  \/ StaDecide
  \/ \E e \in DriverEvents : DriverPost(e)
  \/ HandleStaStart
  \/ HandleDisconnected
  \/ HandleDisconnectedInc
  \/ HandleGotIp
  \/ HandleGotIpSetBits

WifiSpec == WifiInit /\ [][WifiNext]_vars

\* ------------------------------------ try_slave_ota (main/app_main.c)
\* The host looks for a slave image in its slave_fw partition, sends it to
\* the slave through the esp_hosted_slave_ota_* calls, erases the partition
\* and restarts.  A boot of the host runs try_slave_ota once (after
\* wifi_init_sta has returned ESP_OK); esp_restart begins the next boot.
\* The results of esp_partition_read and esp_partition_erase_range are not
\* looked at by the code, so their failure is an outcome of its own: a
\* failed read leaves the local "magic" uninitialised, a failed erase
\* leaves the flash as it was.

\* Lines 530-535: esp_partition_find_first and the test of its result.
OtaFind ==
  /\ opc = "find"
  /\ ota' = [ota EXCEPT !.opc = IF partPresent THEN "magic" ELSE "returned"]
  /\ UNCHANGED besidesOta

\* Lines 538-543: one byte is read into "magic" and compared with 0xE9.
OtaReadMagic ==
  /\ opc = "magic"
  /\ \E readOk \in BOOLEAN, left \in UninitBytes :
       LET m == IF readOk THEN flashFirst ELSE left IN
         ota' = [ota EXCEPT
                   !.magic = m,
                   !.opc = IF m # ESP_IMAGE_MAGIC THEN "returned"
                                                  ELSE "begin"]
  /\ UNCHANGED besidesOta

\* Lines 550-554: esp_hosted_slave_ota_begin.
OtaBegin ==
  /\ opc = "begin"
  /\ \E ret \in OtaRets :
       ota' = [ota EXCEPT
                 !.otaLog = Append(@, [op |-> "begin", ret |-> ret]),
                 !.opc = IF ret # ESP_OK THEN "returned" ELSE "malloc"]
  /\ UNCHANGED besidesOta

\* Lines 557-571: the chunk buffer; without it OTA is ended at once.
OtaMalloc ==
  /\ opc = "malloc"
  /\ \E ok \in BOOLEAN, endRet \in OtaRets :
       ota' = IF ok
                THEN [ota EXCEPT !.opc = "loop", !.otaOffset = 0]
                ELSE [ota EXCEPT
                        !.otaLog = Append(@, [op |-> "end", ret |-> endRet]),
                        !.opc = "returned"]
  /\ UNCHANGED besidesOta

\* Lines 572-599: one pass of the for loop.  A block of erased flash beyond
\* offset 0x1000 ends the loop; a failed write ends OTA and returns.
OtaChunk ==
  /\ opc = "loop"
  /\ \E all_ff \in BOOLEAN, ret \in OtaRets, endRet \in OtaRets :
       ota' = IF all_ff /\ otaOffset > ALL_FF_FLOOR
                THEN [ota EXCEPT !.opc = "end"]
                ELSE IF ret # ESP_OK
                  THEN [ota EXCEPT
                          !.otaLog = @ \o << [op |-> "write", ret |-> ret],
                                             [op |-> "end", ret |-> endRet] >>,
                          !.opc = "returned"]
                  ELSE [ota EXCEPT
                          !.otaLog = Append(@, [op |-> "write", ret |-> ret]),
                          !.otaOffset = @ + OTA_CHUNK_SIZE,
                          !.opc = IF otaOffset + OTA_CHUNK_SIZE < partSize
                                    THEN "loop" ELSE "end"]
  /\ UNCHANGED besidesOta

\* Lines 600-608: esp_hosted_slave_ota_end.
OtaEnd ==
  /\ opc = "end"
  /\ \E ret \in OtaRets :
       ota' = [ota EXCEPT
                 !.otaLog = Append(@, [op |-> "end", ret |-> ret]),
                 !.opc = IF ret # ESP_OK THEN "returned" ELSE "activate"]
  /\ UNCHANGED besidesOta

\* Lines 610-615: esp_hosted_slave_ota_activate.
OtaActivate ==
  /\ opc = "activate"
  /\ \E ret \in OtaRets :
       ota' = [ota EXCEPT
                 !.otaLog = Append(@, [op |-> "activate", ret |-> ret]),
                 !.opc = IF ret # ESP_OK THEN "returned" ELSE "erase",
                 !.otaOkBoot = IF ret = ESP_OK THEN boots ELSE @]
  /\ UNCHANGED besidesOta

\* Line 622: esp_partition_erase_range over the whole partition.
OtaErase ==
  /\ opc = "erase"
  /\ \E eraseOk \in BOOLEAN :
       ota' = [ota EXCEPT
                 !.flashFirst = IF eraseOk THEN FLASH_ERASED ELSE @,
                 !.opc = "restart"]
  /\ UNCHANGED besidesOta

\* Lines 625-626: esp_restart; the next boot reaches try_slave_ota with its
\* locals uninitialised and the flash as the last boot left it.
OtaRestart ==
  /\ opc = "restart"
  /\ boots < MaxBoots
  /\ ota' = [ota EXCEPT !.boots = @ + 1, !.opc = "find", !.magic = 0,
                        !.otaOffset = 0, !.otaLog = <<>>]
  /\ UNCHANGED besidesOta

\* The first boot: a partition table with or without slave_fw, the
\* partition erased or holding an image.
OtaInit ==
  /\ CoreInit /\ InitDone /\ TxIdle /\ ViewIdle
  /\ WifiIdle /\ FlasherIdle /\ BufIdle
  /\ ota \in [opc : {"find"}, partPresent : BOOLEAN, partSize : PartSizes,
              flashFirst : {ESP_IMAGE_MAGIC, FLASH_ERASED}, magic : {0},
              otaOffset : {0}, otaLog : {<<>>}, boots : {1},
              otaOkBoot : {0}]

OtaNext ==
  \/ OtaFind
  \/ OtaReadMagic
  \/ OtaBegin
  \/ OtaMalloc
  \/ OtaChunk
  \/ OtaEnd
  \/ OtaActivate
  \/ OtaErase
  \/ OtaRestart

OtaSpec == OtaInit /\ [][OtaNext]_vars

\* ------------------------------- the OTA flasher's app_main (wifi_raw.h)
\* The flasher sends the firmware image embedded in it to the slave:
\* begin, the image in chunks of at most 1400 bytes, end, activate.  Its
\* one task runs from the begin to the idle loop at "done".

\* Mutant: every chunk is a full one.
ChunkLen_alwaysFull(total, off) == FLASHER_CHUNK_SIZE

\* Line 188: "len".
ChunkLen(total, off) ==
  IF total - off > FLASHER_CHUNK_SIZE THEN FLASHER_CHUNK_SIZE ELSE total - off

\* Sizes of the embedded image: none, one byte, and one byte less than, just
\* and one byte more than whole chunks.
FwSizes ==
  {0, 1} \cup {k * FLASHER_CHUNK_SIZE + d : k \in 1..MaxFwChunks,
                                            d \in {-1, 0, 1}}

\* Lines 168-184: esp_hosted_slave_ota_begin; "goto done" when it fails.
FlasherBegin ==
  /\ fpc = "begin"
  /\ \E ret \in OtaRets :
       flasher' = [flasher EXCEPT
                     !.fLog = Append(@, [op |-> "begin", ret |-> ret,
                                         off |-> 0, len |-> 0]),
                     !.fpc = IF ret # ESP_OK THEN "done" ELSE "loop",
                     !.fOffset = 0]
  /\ UNCHANGED besidesFlasher

\* Lines 187-201: one pass of the while loop; "goto done" on a failed write.
FlasherWrite ==
  /\ fpc = "loop"
  /\ fOffset < fwSize
  /\ LET len == ChunkLen(fwSize, fOffset) IN
       \E ret \in OtaRets :
         flasher' = [flasher EXCEPT
                       !.fLog = Append(@, [op |-> "write", ret |-> ret,
                                           off |-> fOffset, len |-> len]),
                       !.fpc = IF ret # ESP_OK THEN "done" ELSE "loop",
                       !.fOffset = IF ret # ESP_OK THEN @ ELSE @ + len]
  /\ UNCHANGED besidesFlasher

\* Line 187: the loop condition is false.
FlasherLoopExit ==
  /\ fpc = "loop"
  /\ ~(fOffset < fwSize)
  /\ flasher' = [flasher EXCEPT !.fpc = "end"]
  /\ UNCHANGED besidesFlasher

\* Lines 206-210: esp_hosted_slave_ota_end; "goto done" when it fails.
FlasherEnd ==
  /\ fpc = "end"
  /\ \E ret \in OtaRets :
       flasher' = [flasher EXCEPT
                     !.fLog = Append(@, [op |-> "end", ret |-> ret,
                                         off |-> 0, len |-> 0]),
                     !.fpc = IF ret # ESP_OK THEN "done" ELSE "activate"]
  /\ UNCHANGED besidesFlasher

\* Lines 215-245: esp_hosted_slave_ota_activate; the flasher goes on to
\* "done" whatever it returns.
FlasherActivate ==
  /\ fpc = "activate"
  /\ \E ret \in OtaRets :
       flasher' = [flasher EXCEPT
                     !.fLog = Append(@, [op |-> "activate", ret |-> ret,
                                         off |-> 0, len |-> 0]),
                     !.fpc = "done"]
  /\ UNCHANGED besidesFlasher

\* The flasher has connected to the slave; fw_size is the size of the
\* image linked into it.
FlasherInit ==
  /\ CoreInit /\ InitDone /\ TxIdle /\ ViewIdle
  /\ WifiIdle /\ OtaIdle /\ BufIdle
  /\ flasher \in [fpc : {"begin"}, fwSize : FwSizes, fOffset : {0},
                  fLog : {<<>>}]

FlasherNext ==
  \/ FlasherBegin
  \/ FlasherWrite
  \/ FlasherLoopExit
  \/ FlasherEnd
  \/ FlasherActivate

\* The flasher's task is the only one of its application and keeps
\* running until it reaches the idle loop.
FlasherSpec == FlasherInit /\ [][FlasherNext]_vars /\ WF_vars(FlasherNext)

\* --------------------- the command buffer of wifi_raw_80211_tx (wifi_raw.c)
\* wifi_raw_80211_tx statement by statement, for what it does with cmd_buf:
\* malloc, the stores into the block, the call of the transport with it,
\* free, and the wait.  bLog records these in the order they happen.

\* Lines 147-155: the argument check, malloc and the test of its result.
BufCall ==
  /\ bpc = "call"
  /\ IF ~ValidTxArgs(bArgs.buffer, bArgs.len)
       THEN txbuf' = [txbuf EXCEPT !.bRet = ESP_ERR_INVALID_ARG,
                                   !.bpc = "done"]
       ELSE \E mallocOk \in BOOLEAN :
              txbuf' = IF ~mallocOk
                         THEN [txbuf EXCEPT
                                 !.bRet = ESP_ERR_NO_MEM,
                                 !.bpc = "done",
                                 !.bLog = Append(@, "malloc_null")]
                         ELSE [txbuf EXCEPT
                                 !.cmd_buf = "held",
                                 !.bLog = Append(@, "malloc"),
                                 !.bpc = "fill"]
  /\ UNCHANGED besidesBuf

\* Lines 157-161: the header fields and the memcpy into cmd_buf.
BufFill ==
  /\ bpc = "fill"
  /\ txbuf' = [txbuf EXCEPT !.bLog = Append(@, "store"), !.bpc = "clear"]
  /\ UNCHANGED besidesBuf

\* Line 163: xEventGroupClearBits.
BufClear ==
  /\ bpc = "clear"
  /\ txbuf' = [txbuf EXCEPT !.bLog = Append(@, "clear"), !.bpc = "send"]
  /\ UNCHANGED besidesBuf

\* Line 164: esp_hosted_send_custom_data is called with cmd_buf and returns.
BufSend ==
  /\ bpc = "send"
  /\ \E ret \in {ESP_OK} \cup SendErrs :
       txbuf' = [txbuf EXCEPT !.bSendRet = ret,
                              !.bLog = Append(@, "send"),
                              !.bpc = "free"]
  /\ UNCHANGED besidesBuf

\* Mutant: the block is released only when the send succeeded.
BufFree_notOnFailure ==
  /\ bpc = "free"
  /\ txbuf' = IF bSendRet = ESP_OK
                THEN [txbuf EXCEPT !.cmd_buf = "freed",
                                   !.bLog = Append(@, "free"),
                                   !.bpc = "test"]
                ELSE [txbuf EXCEPT !.bpc = "test"]
  /\ UNCHANGED besidesBuf

\* Line 165: free(cmd_buf).
BufFree ==
  /\ bpc = "free"
  /\ txbuf' = [txbuf EXCEPT !.cmd_buf = "freed",
                            !.bLog = Append(@, "free"),
                            !.bpc = "test"]
  /\ UNCHANGED besidesBuf

\* Lines 167-169: the send's error is returned, else the wait begins.
BufTest ==
  /\ bpc = "test"
  /\ txbuf' = IF bSendRet # ESP_OK
                THEN [txbuf EXCEPT !.bRet = bSendRet, !.bpc = "done"]
                ELSE [txbuf EXCEPT !.bLog = Append(@, "wait"),
                                   !.bpc = "wait"]
  /\ UNCHANGED besidesBuf

\* Line 169: wait_cmd_response returns a status or ESP_ERR_TIMEOUT, which
\* wifi_raw_80211_tx returns.
BufWaitReturn ==
  /\ bpc = "wait"
  /\ \E r \in StatusVals \cup {ESP_FAIL} :
       txbuf' = [txbuf EXCEPT !.bRet = r, !.bpc = "done"]
  /\ UNCHANGED besidesBuf

\* wifi_raw_80211_tx is called with a buffer and a length of the caller's
\* choice.
BufInit ==
  /\ CoreInit /\ InitDone /\ TxIdle /\ ViewIdle
  /\ WifiIdle /\ OtaIdle /\ FlasherIdle
  /\ txbuf \in [bpc : {"call"},
                bArgs : [buffer : TxBuffers, len : TxLenArgs],
                cmd_buf : {NULL}, bSendRet : {NoRet}, bRet : {NoRet},
                bLog : {<<>>}]

BufNext ==
  \/ BufCall
  \/ BufFill
  \/ BufClear
  \/ BufSend
  \/ BufFree
  \/ BufTest
  \/ BufWaitReturn

BufSpec == BufInit /\ [][BufNext]_vars

\* ===================================================================
\* Claims
\* ===================================================================

\* C1: single caller; if a well-formed Response Record is delivered after
\* the command was sent and before the wait ends, the call returns the
\* status carried in that record and never ESP_ERR_TIMEOUT.
C1_DeliveredStatusNeverTimeout ==
  \A c \in SingleCaller :
    (pc[c] = "done" /\ waited[c] /\ delivered[c]) =>
      /\ path[c] = "status"
      /\ result[c] = deliveredStatus[c]
      /\ result[c] # ESP_ERR_TIMEOUT

\* C2: no lost wake-up.  The signal is cleared before the send and never
\* after it, so a response that arrives at any point after the clear, also
\* before the caller has begun to wait, is still seen by the call's wait:
\* while the caller has not yet taken it the signal stays set, no caller
\* stays blocked once a response has arrived, and a call that waited and had
\* a response delivered ends by the status return.
C2_NoLostWakeup ==
  \A c \in SingleCaller :
    /\ (delivered[c] /\ pc[c] \in {"send", "wait", "expired"}) => s_resp_event
    /\ pc[c] = "blocked" => ~delivered[c]
    /\ (pc[c] = "done" /\ waited[c] /\ delivered[c]) => path[c] = "status"

\* Witness of C2: the response arrived before the caller began to wait, and
\* the call returned its status.
C2_Witness ==
  /\ pc[1] = "done" /\ path[1] = "status"
  /\ tookAtEntry[1] /\ delivered[1] /\ nInject = 0 /\ callNo[1] = 1

\* C3: non-overlapping calls over an in-order, exactly-once transport; every
\* call that returns a status returns the status of the Response Record the
\* responder produced for that call's own command, also after earlier calls
\* timed out.
C3_OwnResponse ==
  \A c \in SingleCaller :
    (nInject = 0 /\ pc[c] = "done" /\ path[c] = "status") =>
      answered[c] /\ result[c] = ownStatus[c]

\* C4: if no well-formed Response Record is delivered between the call's
\* clear and the end of its wait, the call returns ESP_ERR_TIMEOUT, and the
\* signal is clear at the step in which it returns.
C4_TimeoutLeavesSignalClear ==
  [][\A c \in SingleCaller :
       (pc[c] # "done" /\ pc'[c] = "done" /\ waited'[c] /\ ~delivered'[c]) =>
         /\ result'[c] = ESP_ERR_TIMEOUT
         /\ path'[c] = "timeout"
         /\ ~s_resp_event']_vars

\* Witness of C4: a call that waited, got no response and timed out.
C4_Witness ==
  /\ pc[1] = "done" /\ waited[1] /\ ~delivered[1]
  /\ path[1] = "timeout" /\ result[1] = ESP_ERR_TIMEOUT /\ ~s_resp_event

\* C5: a signal raised before the call's clear never completes the call: a
\* call that is woken was woken by a response that arrived after its clear.
C5_CleanStart ==
  \A c \in SingleCaller :
    (pc[c] = "read" \/ (pc[c] = "done" /\ path[c] = "status")) => delivered[c]

\* Witness of C5: the signal was still set from a late response when the
\* call cleared it, and the call went on to time out.
C5_Witness ==
  /\ pc[1] = "done" /\ staleAtClear[1] /\ waited[1]
  /\ path[1] = "timeout" /\ nInject = 0

\* C6 as stated: every call ends in one of the five outcomes success,
\* argument error, send error, timeout, remote-status error (success and
\* remote-status error are both the status return).
C6_FiveOutcomes ==
  \A c \in SingleCaller :
    pc[c] = "done" => path[c] \in {"status", "arg", "send", "timeout"}

\* C6 amended: every call ends, no later than the timeout after its send, in
\* exactly one of the outcomes success, argument error, allocation failure
\* (ESP_ERR_NO_MEM), send error, timeout, remote-status error.  A caller is
\* again and again outside a command function, so no call lasts for ever; a
\* blocked caller has always waited less than the timeout.
C6_TerminatesWithOutcome ==
  /\ [](\A c \in SingleCaller :
          /\ pc[c] = "done" =>
                path[c] \in {"status", "arg", "nomem", "send", "timeout"}
          /\ pc[c] = "blocked" => elapsed[c] < WaitTicks)
  /\ []<>(\A c \in SingleCaller : pc[c] \in {"idle", "done"})

\* Witness of C6: a call that ended with the allocation failure.
C6_Witness ==
  pc[1] = "done" /\ path[1] = "nomem" /\ result[1] = ESP_ERR_NO_MEM

\* C7: wifi_raw_80211_tx with a null buffer, or len = 0, len < 0 or
\* len > 4000, returns ESP_ERR_INVALID_ARG, never calls the transport, and
\* leaves the signal, the last-response slot and the consumer unchanged
\* (stated of every step in which a caller begins such a call).
C7_InvalidArgNoIo ==
  [][\A c \in SingleCaller :
       callNo'[c] # callNo[c] =>
         \A b \in Buffers, len \in TxLens :
           ((b = NULL \/ len <= 0 \/ len > 4000)
              /\ kind'[c] = WIFI_RAW_MSG_80211_TX
              /\ \E m \in BOOLEAN : wifi_raw_80211_tx(c, b, len, m)) =>
             /\ pc'[c] = "done"
             /\ result'[c] = ESP_ERR_INVALID_ARG
             /\ sends'[c] = 0
             /\ UNCHANGED <<s_resp_event, s_last_response, s_rx_cb, cmdq>>]_vars

\* Witness of C7: an injection rejected for its arguments while the signal
\* was set and a consumer registered.
C7_Witness ==
  /\ pc[1] = "done" /\ path[1] = "arg" /\ kind[1] = WIFI_RAW_MSG_80211_TX
  /\ result[1] = ESP_ERR_INVALID_ARG /\ sends[1] = 0
  /\ s_rx_cb # NULL

\* C8: when the send fails the call returns the transport's error unchanged
\* and at once: one send, no wait, and a response delivered later does not
\* change the returned result.
C8_SendFailurePropagates ==
  \A c \in SingleCaller :
    sendRet[c] # ESP_OK =>
      /\ pc[c] = "done"
      /\ path[c] = "send"
      /\ result[c] = sendRet[c]
      /\ sends[c] = 1
      /\ ~waited[c]

\* Witness of C8: the send failed, the call returned, and a response was
\* delivered afterwards (the signal was cleared before the send).
C8_Witness ==
  /\ pc[1] = "done" /\ path[1] = "send" /\ result[1] = ESP_ERR_INVALID_STATE
  /\ s_resp_event

\* C9: a Response Record whose echoed tag differs from the awaited command's
\* tag still completes the waiting call: its arrival releases a blocked
\* caller, and the caller returns that record's status, the mismatch being
\* logged only.
C9_MismatchTolerated ==
  [][\A c \in SingleCaller :
       /\ (dpc = "set" /\ dpc' = "idle" /\ pc[c] = "blocked"
             /\ s_last_response.cmd_msg_id # kind[c]) => pc'[c] = "read"
       /\ (pc[c] = "read" /\ pc'[c] # "read"
             /\ s_last_response.cmd_msg_id # kind[c]) =>
            /\ pc'[c] = "done"
            /\ path'[c] = "status"
            /\ result'[c] = s_last_response.status
            /\ warned'[c]]_vars

\* Witness of C9: a call completed by a response carrying another tag.
C9_Witness ==
  /\ pc[1] = "done" /\ path[1] = "status" /\ warned[1]
  /\ readTag[1] # kind[1] /\ ~tookAtEntry[1]

\* C10: timeout and remote status are distinguishable: a call whose wait was
\* ended by a Response Record never returns the timeout error value, and a
\* call returns the timeout error value only if no Response Record ended its
\* wait.
C10_TimeoutDistinguishable ==
  \A c \in SingleCaller :
    (pc[c] = "done" /\ waited[c]) =>
      /\ path[c] = "status" => result[c] # ESP_ERR_TIMEOUT
      /\ result[c] = ESP_ERR_TIMEOUT => path[c] = "timeout"

\* ------------------------------------------------------------------- C11
\* The correlator's state for caller c: AWAITING_RESPONSE from the successful
\* send until the call returns, IDLE otherwise.
Awaiting(c) == pc[c] \in {"wait", "blocked", "expired", "read"}

\* Command Records in flight (not yet answered, or answered and not yet
\* delivered) that a call is still awaiting.
OutstandingSrcs ==
  { m.src : m \in {cmdq[i] : i \in 1..Len(cmdq)}
                   \cup {respq[i] : i \in 1..Len(respq)} }
    \cap { callNo[c] : c \in {c1 \in SingleCaller : Awaiting(c1)} }

C12_LossOnlyToOtherCaller ==
  \A c \in AllCallers :
    (pc[c] = "done" /\ waited[c] /\ path[c] = "timeout" /\ ownDelivered[c])
      => lost[c] # "no"

\* Witness of C12: in one run a call has timed out although its response
\* was delivered, the other caller's clear having erased the signal, and a
\* call whose own response had arrived has returned the status of the other
\* caller's Response Record, the slot having been overwritten before the
\* read.
C12_Witness == hazClear /\ hazRead

\* ------------------------------------------------------------------- C13
\* C13: every arrival of a well-formed Response Record overwrites the
\* last-response slot with that record and then raises the signal, whether or
\* not a call is waiting (a blocked caller is released by it, otherwise the
\* bit stays set), also after the call it answers has returned the timeout;
\* nothing but an arrival writes the slot, so the slot holds the most
\* recently arrived well-formed record.
C13_ArrivalOverwritesSlot ==
  [][/\ (respq # <<>> /\ respq' = Tail(respq)) =>
          /\ Head(respq).data_len >= SizeofCmdResponse
          /\ s_last_response' = [cmd_msg_id |-> Head(respq).cmd_msg_id,
                                 status |-> Head(respq).status]
          /\ dpc' = "set"
     /\ (nInject' # nInject) =>
          \/ \E m \in Injected :
               /\ m.data_len >= SizeofCmdResponse
               /\ s_last_response' = [cmd_msg_id |-> m.cmd_msg_id,
                                      status |-> m.status]
               /\ dpc' = "set"
          \/ UNCHANGED <<s_last_response, s_resp_event, dpc>>
     /\ (dpc = "set" /\ dpc' # "set") =>
          /\ dpc' = "idle"
          /\ UNCHANGED s_last_response
          /\ IF \E c \in SingleCaller : pc[c] = "blocked"
               THEN \A c \in SingleCaller :
                      pc[c] = "blocked" => pc'[c] = "read"
               ELSE s_resp_event'
     /\ (s_last_response' # s_last_response) =>
          dpc = "idle" /\ dpc' = "set"]_vars

\* Witness of C13: the only call of the run has returned the timeout; its
\* response arrived afterwards, is in the slot, and the signal is raised.
C13_Witness ==
  /\ pc[1] = "done" /\ path[1] = "timeout" /\ callNo[1] = 1 /\ nInject = 0
  /\ answered[1] /\ ~delivered[1] /\ respq = <<>> /\ cmdq = <<>> /\ dpc = "idle"
  /\ s_resp_event
  /\ s_last_response = [cmd_msg_id |-> kind[1], status |-> ownStatus[1]]

\* ------------------------------------------------------------ C14 .. C20
\* An Event Record is well-formed when the delivery holds the whole header
\* and the trailing bytes the header declares.
WellFormed(m) ==
  m.len >= SizeofPromiscPkt /\ m.len >= SizeofPromiscPkt + m.data_len

\* The event whose delivery began in the step just taken.
Arrived(log) == log[Len(log)].ev

\* C14: a well-formed Event Record delivered while a consumer is registered
\* (from the start of the delivery to its end) produces exactly one consumer
\* invocation, made by the delivery context before it takes up any other
\* message; the view carries the record's type, rssi, channel, rate, sig_mode
\* and rx_state, payload_len equal to the declared trailing length, and as
\* payload the record's trailing bytes, byte for byte.
C14_OneInvocationSameView ==
  [][/\ (nEvents' # nEvents /\ s_rx_cb # NULL /\ WellFormed(Arrived(evLog')))
          => /\ dpc' = "invoke" /\ pkt' = Arrived(evLog')
             /\ calls' = calls
     /\ (dpc = "invoke" /\ dpc' = "invoke") =>
          /\ UNCHANGED <<calls, pkt, nEvents, s_last_response>>
          /\ Len(respq') >= Len(respq)
     /\ (dpc = "invoke" /\ dpc' # "invoke" /\ s_rx_cb = cbAtCheck) =>
          /\ dpc' = "idle"
          /\ Len(calls') = Len(calls) + 1
          /\ SubSeq(calls', 1, Len(calls)) = calls
          /\ LET call == calls'[Len(calls')] IN
               /\ call.cb = s_rx_cb
               /\ call.rx.type = pkt.type /\ call.rx.rssi = pkt.rssi
               /\ call.rx.channel = pkt.channel /\ call.rx.rate = pkt.rate
               /\ call.rx.sig_mode = pkt.sig_mode
               /\ call.rx.rx_state = pkt.rx_state
               /\ call.rx.payload_len = pkt.data_len
               /\ Len(call.rx.payload) = pkt.data_len
               /\ \A i \in 1..pkt.data_len :
                     call.rx.payload[i] = pkt.data[i]]_vars

\* Witness of C14: the record with the 3-byte frame has been passed to the
\* registered consumer.
C14_Witness ==
  /\ Len(evLog) = 1 /\ evLog[1].ev = EvFrame3 /\ dpc = "idle"
  /\ Len(calls) = 1 /\ calls[1].cb = "cb1"
  /\ calls[1].rx.payload = <<170, 187, 204>> /\ calls[1].rx.payload_len = 3
  /\ calls[1].rx.rssi = -40

\* C15: an event delivery shorter than the Event Record header, or shorter
\* than header plus declared trailing length, invokes no consumer and changes
\* no state of the dispatcher or the correlator; nothing of the record is
\* kept and no error is raised.
C15_MalformedDropped ==
  [][(nEvents' # nEvents /\ ~WellFormed(Arrived(evLog'))) =>
       /\ dpc' = "idle"
       /\ UNCHANGED <<s_resp_event, s_last_response, s_rx_cb, pc, kind, size,
                      elapsed, result, cmdq, respq, dpc, pkt, cbAtCheck,
                      calls>>]_vars

\* Witness of C15: both kinds of short delivery arrived while a consumer was
\* registered, and no consumer has been invoked.
C15_Witness ==
  /\ Len(evLog) = 2 /\ evLog[1].ev = EvShortHeader
  /\ evLog[2].ev = EvTruncated
  /\ evLog[1].cb # NULL /\ evLog[2].cb # NULL
  /\ calls = <<>> /\ dpc = "idle"

\* Entries of the delivery log whose record is well-formed.
IsWfEntry(e) == WellFormed(e.ev)

\* A consumer is registered and no registration has run since the first
\* delivery began.
FixedConsumer ==
  /\ s_rx_cb # NULL /\ regAt = 0
  /\ \A i \in 1..Len(evLog) : evLog[i].cb = s_rx_cb

\* C16: with a fixed registered consumer, the sequence of consumer
\* invocations is the sequence of the well-formed events in the order the
\* transport delivered them (less the one still being handled): none is
\* dropped, duplicated, coalesced or reordered.
C16_InvocationsInDeliveryOrder ==
  FixedConsumer =>
    LET wf == SelectSeq(evLog, IsWfEntry)
        n == IF dpc = "invoke" THEN Len(wf) - 1 ELSE Len(wf)
    IN /\ dpc # "crashed"
       /\ Len(calls) = n
       /\ \A i \in 1..n :
             calls[i].rx = RxView(wf[i].ev) /\ calls[i].cb = s_rx_cb

\* Witness of C16: two different well-formed events, passed on in the order
\* they were delivered.
C16_Witness ==
  /\ FixedConsumer /\ dpc = "idle" /\ Len(evLog) = 2
  /\ evLog[1].ev = EvPadded /\ evLog[2].ev = EvFrame3
  /\ Len(calls) = 2
  /\ calls[1].rx.payload = <<85>> /\ calls[2].rx.payload = <<170, 187, 204>>

\* C17: an event delivered while no consumer is registered changes nothing
\* (no invocation, no error, nothing kept of it), and a consumer is never
\* invoked for an event that arrived before a consumer was registered: there
\* are no more invocations than well-formed deliveries that began with a
\* consumer registered.
C17_NoConsumerNoBuffering ==
  /\ [][(nEvents' # nEvents /\ s_rx_cb = NULL) =>
          /\ dpc' = "idle"
          /\ UNCHANGED <<s_resp_event, s_last_response, s_rx_cb, pc, kind,
                         size, elapsed, result, cmdq, respq, dpc, pkt,
                         cbAtCheck, calls>>]_vars
  /\ [](Len(calls) <=
          Cardinality({i \in 1..Len(evLog) :
                         evLog[i].cb # NULL /\ WellFormed(evLog[i].ev)}))

\* Witness of C17: a well-formed event arrived with no consumer registered;
\* a consumer was registered afterwards and has been invoked for the next
\* event only.
C17_Witness ==
  /\ Len(evLog) = 2 /\ evLog[1].cb = NULL /\ evLog[1].ev = EvFrame3
  /\ evLog[2].cb = "cb1" /\ evLog[2].ev = EvPadded
  /\ Len(calls) = 1 /\ calls[1].rx = RxView(EvPadded) /\ dpc = "idle"

\* C18: one consumer at a time, the last registration wins.  The registered
\* consumer is the argument of the last wifi_raw_register_rx_cb (nothing else
\* writes it, and registering always takes effect); a delivery that begins
\* when that argument is NULL invokes nobody, and a delivery that begins when
\* it is cb, with no registration until the delivery ends, invokes cb.
C18_LastRegistrationWins ==
  /\ [](s_rx_cb = regArg)
  /\ [][/\ (nEvents' # nEvents /\ regArg = NULL) =>
              dpc' = "idle" /\ calls' = calls
        /\ (nEvents' # nEvents /\ dpc' = "invoke") => cbAtCheck' = regArg
        /\ (dpc = "invoke" /\ dpc' # "invoke" /\ cbAtCheck = regArg) =>
              /\ Len(calls') = Len(calls) + 1
              /\ calls'[Len(calls')].cb = regArg]_vars

\* Witness of C18: cb1 was registered and invoked, cb2 was registered in
\* its place, and the next event went to cb2.
C18_Witness ==
  /\ Len(calls) = 2 /\ calls[1].cb = "cb1" /\ calls[2].cb = "cb2"
  /\ evLog[1].cb = "cb1" /\ evLog[2].cb = "cb2" /\ s_rx_cb = "cb2"

\* C19: a registration or deregistration that runs while an event delivery
\* is in progress lets that delivery end by invoking the previous consumer
\* or the new one, or by dropping the event; a null consumer is never
\* invoked and the program goes on.
C19_HandoffNeverInvokesNull ==
  /\ dpc # "crashed"
  /\ \A i \in 1..Len(calls) : calls[i].cb \in Consumers \ {NULL}

\* C20: event dispatch and command correlation are independent.  A step of
\* on_promisc_pkt leaves the response signal, the last-response slot and
\* every caller's position and result as they are; a step of on_cmd_response
\* invokes no consumer and starts no event dispatch; and the registered
\* consumer changes in a registration step only, never in a command call or
\* on a response arrival.
C20_EventsAndCommandsIndependent ==
  [][/\ (nEvents' # nEvents \/ (dpc = "invoke" /\ dpc' # "invoke")) =>
          UNCHANGED <<s_resp_event, s_last_response, pc, elapsed, result,
                      cmdq, respq>>
     /\ ((respq # <<>> /\ respq' = Tail(respq))
           \/ (dpc = "set" /\ dpc' # "set")) =>
          /\ UNCHANGED <<calls, pkt, cbAtCheck, s_rx_cb, nEvents>>
          /\ dpc' \in {"idle", "set"}
     /\ (s_rx_cb' # s_rx_cb) =>
          /\ nCalls' = nCalls + 1 /\ callNo' = callNo /\ pc' = pc
          /\ UNCHANGED <<s_resp_event, s_last_response, respq, cmdq>>
     /\ (callNo' # callNo \/ pc' # pc) => s_rx_cb' = s_rx_cb]_vars

\* Witness of C20: an event has been passed to the consumer while the
\* command call was blocked in its wait with its response in flight, and
\* the call is still blocked.
C20_Witness ==
  /\ pc[1] = "blocked" /\ elapsed[1] = 1 /\ respq # <<>>
  /\ Len(evLog) = 1 /\ Len(calls) = 1 /\ dpc = "idle" /\ ~s_resp_event
  /\ s_rx_cb = calls[1].cb

\* ------------------------------------------------------------------- C21
\* C21: a command call that times out does not disturb event delivery.  The
\* step in which the call returns the timeout leaves the registered consumer
\* and the dispatcher as they are; and with a fixed registered consumer, the
\* well-formed events whose delivery began while the call was blocked in its
\* wait or after it had timed out are passed to that consumer once each, in
\* delivery order and with the view of their own record, the registration
\* being the one the application made.
C21_TimeoutKeepsEventDelivery ==
  /\ [][\A c \in SingleCaller :
          (pc[c] = "expired" /\ pc'[c] = "done") =>
            /\ path'[c] = "timeout"
            /\ UNCHANGED <<s_rx_cb, dpc, pkt, cbAtCheck, nEvents, evLog,
                           calls>>]_vars
  /\ []((/\ FixedConsumer
         /\ \E c \in SingleCaller :
               waited[c] /\ (pc[c] \in {"blocked", "expired"}
                               \/ (pc[c] = "done" /\ path[c] = "timeout")))
        => LET wfIdx == {i \in 1..Len(evLog) : IsWfEntry(evLog[i])}
               wf == SelectSeq(evLog, IsWfEntry)
               wfPhase == [k \in 1..Len(wf) |->
                             evPhase[CHOOSE i \in wfIdx :
                                       Cardinality({j \in wfIdx : j <= i}) = k]]
               n == IF dpc = "invoke" THEN Len(wf) - 1 ELSE Len(wf)
           IN /\ dpc # "crashed"
              /\ Len(evPhase) = Len(evLog)
              /\ s_rx_cb = regArg
              /\ Len(calls) = n
              /\ \A i \in 1..n :
                    wfPhase[i] \in {"waiting", "timedout"} =>
                      /\ calls[i].rx = RxView(wf[i].ev)
                      /\ calls[i].cb = regArg)

\* Witness of C21: one event was delivered while the call was blocked and
\* one after it had returned the timeout; both reached the consumer that was
\* registered before the call, in order.
C21_Witness ==
  /\ pc[1] = "done" /\ path[1] = "timeout" /\ result[1] = ESP_ERR_TIMEOUT
  /\ FixedConsumer /\ s_rx_cb = "cb1" /\ dpc = "idle"
  /\ Len(evLog) = 2
  /\ evPhase = <<"waiting", "timedout">>
  /\ evLog[1].ev = EvFrame3 /\ evLog[2].ev = EvPadded
  /\ Len(calls) = 2
  /\ calls[1].rx = RxView(EvFrame3) /\ calls[2].rx = RxView(EvPadded)
  /\ calls[1].cb = "cb1" /\ calls[2].cb = "cb1"

\* ------------------------------------------------------------------- C22
\* C22 as stated: a command call made from inside the delivery context
\* deadlocks, i.e. once it has sent its command and begun to wait it never
\* returns.
C22_NestedCallNeverReturns ==
  waited[DeliveryCaller] => pc[DeliveryCaller] # "done"

\* C22 amended: a command call made from inside the delivery context is
\* never completed by a Response Record.  While the consumer has not returned
\* the delivery context hands on nothing (no response is taken off the
\* transport, the slot and the signal stay as they are once the call has
\* cleared the signal), so the call is never woken; it stays blocked for the
\* whole timeout and returns ESP_ERR_TIMEOUT.
C22_NestedCallOnlyTimesOut ==
  /\ [](/\ pc[DeliveryCaller] \notin {"idle", "done"} => dpc = "incb"
        /\ pc[DeliveryCaller] # "read"
        /\ pc[DeliveryCaller] \in {"send", "wait", "blocked", "expired"}
              => ~s_resp_event
        /\ (pc[DeliveryCaller] = "done" /\ waited[DeliveryCaller]) =>
              /\ path[DeliveryCaller] = "timeout"
              /\ result[DeliveryCaller] = ESP_ERR_TIMEOUT
              /\ ~delivered[DeliveryCaller]
              /\ ~tookAtEntry[DeliveryCaller])
  /\ [][(dpc = "incb" /\ dpc' = "incb") =>
          /\ Len(respq') >= Len(respq)
          /\ UNCHANGED <<s_last_response, nEvents, calls>>]_vars

\* Witness of C22: the consumer's call was answered by the responder, timed
\* out all the same and returned; the consumer returned, and only then was
\* the response delivered: it is in the slot and the signal is raised with
\* no call waiting.
C22_Witness ==
  /\ pc[DeliveryCaller] = "done" /\ path[DeliveryCaller] = "timeout"
  /\ result[DeliveryCaller] = ESP_ERR_TIMEOUT /\ answered[DeliveryCaller]
  /\ dpc = "idle" /\ respq = <<>> /\ cmdq = <<>> /\ s_resp_event
  /\ s_last_response = [cmd_msg_id |-> WIFI_RAW_MSG_SET_CHANNEL,
                        status |-> ownStatus[DeliveryCaller]]

\* ------------------------------------------------------------------- C23
\* C23: the responder emits exactly one Response Record for every Command
\* Record it receives, and none that answers no received command.  Whenever
\* it takes a command off the transport it puts one record on the response
\* tag (respq is the traffic of that tag) which has the full record size,
\* echoes the command's tag and carries the native call's result; and the
\* traffic of the response tag grows in no other step.
C23_OneResponsePerCommand ==
  [][/\ (Len(cmdq') < Len(cmdq)) =>
          /\ cmdq' = Tail(cmdq)
          /\ Len(respq') = Len(respq) + 1
          /\ SubSeq(respq', 1, Len(respq)) = respq
          /\ LET r == respq'[Len(respq')] IN
               /\ r.cmd_msg_id = Head(cmdq).tag
               /\ r.src = Head(cmdq).src
               /\ r.data_len = SizeofCmdResponse
               /\ r.status \in StatusVals
               /\ \A c \in SingleCaller :
                     callNo[c] = Head(cmdq).src =>
                       answered'[c] /\ r.status = ownStatus'[c]
     /\ (Len(respq') > Len(respq)) =>
          Len(cmdq) > 0 /\ cmdq' = Tail(cmdq)]_vars

\* Witness of C23: the command of the call in progress has been answered
\* with a failing native result, and that one record is in flight.
C23_Witness ==
  /\ pc[1] = "blocked" /\ cmdq = <<>> /\ Len(respq) = 1
  /\ respq[1].src = callNo[1] /\ respq[1].cmd_msg_id = kind[1]
  /\ respq[1].status = ESP_ERR_TIMEOUT /\ ownStatus[1] = ESP_ERR_TIMEOUT
  /\ answered[1]

C25_TxRecordCarriesLenAndBytes ==
  /\ txpc = "sent" =>
        LET a == txArgs
            b == txSent.bytes
        IN /\ a.buffer # NULL /\ a.len >= 1 /\ a.len <= 4000
           /\ txSent.tag = 259
           /\ txSent.size = 4 + a.len
           /\ Len(b) = txSent.size
           /\ b[1] = a.ifx
           /\ b[2] = (IF a.en_sys_seq THEN 1 ELSE 0)
           /\ b[3] \in 0..255 /\ b[4] \in 0..255
           /\ b[3] + 256 * b[4] = a.len
           /\ \A i \in 1..a.len : b[4 + i] = BufByte(a.buffer, i)
  /\ (txpc \in {"sent", "nomem", "arg"} /\ txArgs.buffer # NULL
        /\ txArgs.len >= 1 /\ txArgs.len <= 4000) => txpc # "arg"

\* Witness of C25: the longest injection allowed, with en_sys_seq set.
C25_Witness ==
  /\ txpc = "sent" /\ txArgs.len = 4000 /\ txArgs.en_sys_seq
  /\ txArgs.ifx = 255 /\ txArgs.buffer = "ramp"
  /\ txSent.size = 4004 /\ txSent.bytes[3] = 160 /\ txSent.bytes[4] = 15
  /\ txSent.bytes[2] = 1 /\ txSent.bytes[4004] = 160

\* ------------------------------------------------------------------- C26
\* C26: the last-response slot is written by the delivery context only, in
\* the first half of an arrival, a step that raises no signal and moves no
\* caller; the signal is raised, or a blocked caller released, only by the
\* second half of that arrival, which leaves the slot alone.  A caller reads
\* the slot (takes its status as the result) only in the step after its wait
\* has observed the signal, and when it is woken with no further arrival
\* under way the slot holds the status of the response that arrived in its
\* window.
C26_StoreBeforeSignalReadAfterWake ==
  [][/\ (s_last_response' # s_last_response) =>
          /\ dpc = "idle" /\ dpc' = "set"
          /\ UNCHANGED <<s_resp_event, pc, result, path, readTag>>
     /\ ((~s_resp_event /\ s_resp_event')
           \/ \E c \in SingleCaller : pc[c] = "blocked" /\ pc'[c] = "read") =>
          /\ dpc = "set" /\ dpc' = "idle"
          /\ UNCHANGED s_last_response
     /\ \A c \in SingleCaller :
          /\ (pc[c] # "read" /\ pc'[c] = "read") =>
                /\ \/ s_resp_event /\ ~s_resp_event'
                   \/ dpc = "set" /\ dpc' = "idle" /\ pc[c] = "blocked"
                /\ delivered'[c]
                /\ dpc' = "idle" =>
                      s_last_response'.status = deliveredStatus'[c]
                /\ UNCHANGED <<result, path, readTag, s_last_response>>
          /\ (path'[c] = "status" /\ path[c] # "status") =>
                /\ pc[c] = "read" /\ pc'[c] = "done"
                /\ result'[c] = s_last_response.status
                /\ readTag'[c] = s_last_response.cmd_msg_id
                /\ UNCHANGED s_last_response]_vars

\* Witness of C26: a blocked caller was released by the arrival of its own
\* response and has returned the status stored by that arrival.
C26_Witness ==
  /\ pc[1] = "done" /\ path[1] = "status" /\ waited[1] /\ ~tookAtEntry[1]
  /\ callNo[1] = 1 /\ nInject = 0 /\ answered[1] /\ delivered[1]
  /\ result[1] = ownStatus[1] /\ readTag[1] = kind[1]
  /\ s_last_response = [cmd_msg_id |-> kind[1], status |-> result[1]]
  /\ ~s_resp_event /\ dpc = "idle"

\* ------------------------------------------------------------------- C27
\* C27: a call that gets past its argument check (and its allocation) calls
\* the transport's send exactly once, under its own tag: 0x0100 for
\* set_promiscuous, 0x0101 for set_channel, 0x0102 for set_filter, 0x0103
\* for 80211_tx.  The send is the step from "send"; a successful one puts
\* one record with the call's tag on the transport; no other step of a call
\* sends, so a call that waits, is answered or times out has sent once (no
\* retry), and a call rejected before the send has not sent.
C27_OneSendOwnTag ==
  /\ [](\A c \in SingleCaller :
          /\ sends[c] <= 1
          /\ pc[c] \in {"clear", "send"} => sends[c] = 0
          /\ pc[c] \in {"wait", "blocked", "expired", "read"} => sends[c] = 1
          /\ pc[c] = "done" =>
                sends[c] = IF path[c] \in {"status", "timeout", "send"}
                             THEN 1 ELSE 0)
  /\ [][\A c \in SingleCaller :
          /\ (callNo'[c] # callNo[c]) =>
                /\ wifi_raw_set_promiscuous(c) => kind'[c] = 256
                /\ wifi_raw_set_channel(c) => kind'[c] = 257
                /\ wifi_raw_set_filter(c) => kind'[c] = 258
                /\ \A b \in Buffers, len \in TxLens, m \in BOOLEAN :
                      wifi_raw_80211_tx(c, b, len, m) => kind'[c] = 259
                /\ sends'[c] = 0 /\ cmdq' = cmdq
                /\ pc'[c] = "clear" <=> path'[c] = "none"
          /\ (sends'[c] # sends[c] /\ callNo'[c] = callNo[c]) =>
                /\ pc[c] = "send" /\ sends'[c] = sends[c] + 1
                /\ kind'[c] = kind[c]
                /\ IF sendRet'[c] = ESP_OK
                     THEN /\ Len(cmdq') = Len(cmdq) + 1
                          /\ SubSeq(cmdq', 1, Len(cmdq)) = cmdq
                          /\ cmdq'[Len(cmdq')].tag = kind[c]
                     ELSE cmdq' = cmdq
          /\ (Len(cmdq') > Len(cmdq)) => sends'[c] = sends[c] + 1]_vars

\* Witness of C27: a set_filter call has timed out unanswered; it has sent
\* once, and its one record, under tag 0x0102, is still on the transport.
C27_Witness ==
  /\ pc[1] = "done" /\ path[1] = "timeout" /\ callNo[1] = 1
  /\ sends[1] = 1 /\ kind[1] = 258
  /\ Len(cmdq) = 1 /\ cmdq[1].tag = 258 /\ cmdq[1].size = 4

\* ------------------------------------------------------------------- C28
\* C28: a message on the response tag shorter than the Response Record (6
\* bytes) is ignored.  The step in which on_cmd_response is handed such a
\* message leaves the slot and the signal as they are, does not go on to
\* raise the signal, and moves no caller: a blocked caller stays blocked
\* with its wait as old as before, and no call is marked as answered.
C28_ShortResponseIgnored ==
  [][\A m \in Injected :
       (m.data_len < 6 /\ nInject' # nInject /\ OnCmdResponseCopy(m)) =>
         /\ dpc' = "idle"
         /\ UNCHANGED <<s_resp_event, s_last_response, pc, elapsed, result,
                        path, delivered, deliveredStatus, respq, cmdq>>]_vars

\* Witness of C28: the short message has been delivered and dropped; the
\* slot still holds its initial zeros, the signal is clear and the caller
\* is blocked in its wait.
C28_Witness ==
  /\ nInject = 1 /\ dpc = "idle" /\ ~s_resp_event
  /\ s_last_response = [cmd_msg_id |-> 0, status |-> 0]
  /\ pc[1] = "blocked" /\ elapsed[1] = 1 /\ ~delivered[1] /\ callNo[1] = 1

\* ------------------------------------------------------------------- C29
\* C29: the wait that observes the signal consumes it, and when a command
\* call returns a status the signal is clear, so that the arrival which
\* completed it can complete no other call (no foreign message is needed
\* for the cases looked at: nInject = 0).
C29_StatusReturnLeavesSignalClear ==
  [][\A c \in SingleCaller :
       /\ (pc[c] # "read" /\ pc'[c] = "read") => ~s_resp_event'
       /\ (nInject' = 0 /\ pc[c] = "read" /\ pc'[c] = "done") =>
            ~s_resp_event']_vars

\* ------------------------------------------------------------------- C30
\* C30: whenever the consumer is invoked, the payload view lies inside the
\* delivered buffer: the 14-byte header plus payload_len is at most the
\* delivered byte count, payload_len is the declared length (0..65535), and
\* the payload_len bytes the view gives access to are the bytes that follow
\* the header in the delivery.  A delivery goes on to the invocation exactly
\* when a consumer is registered and the delivered count is at least 14 plus
\* the declared length, the case of equality and of declared length 0
\* included.
C30_ViewInsideDelivery ==
  /\ vpc \in {"invoke", "done", "dropped"} =>
        (vpc = "dropped" <=>
           (vIn.cb = NULL \/ vIn.m.len < 14 + vIn.m.data_len))
  /\ vpc \in {"invoke", "done"} => 14 + vIn.m.data_len <= vIn.m.len
  /\ vpc # "done" => vOut = NoPkt
  /\ vpc = "done" =>
        /\ vOut.payload_len \in 0..65535
        /\ vOut.payload_len = vIn.m.data_len
        /\ 14 + vOut.payload_len <= vIn.m.len
        /\ Len(vOut.payload) = vOut.payload_len
        /\ \A i \in 1..vOut.payload_len : vOut.payload[i] = vIn.m.data[i]

\* Witness of C30: the largest declared length, delivered with exactly the
\* header and that many bytes, has been passed to the consumer.
C30_Witness ==
  /\ vpc = "done" /\ vIn.m.data_len = 65535 /\ vIn.m.len = 14 + 65535
  /\ vOut.payload_len = 65535 /\ Len(vOut.payload) = 65535
  /\ vOut.payload[65535] = 255

\* ------------------------------------------------------------------- C31
\* C31: in wifi_event_handler the retry counter stays within
\* 0..WIFI_MAX_RETRY (5); between two resets of the counter (the start of
\* wifi_connect, a got-IP event) the disconnect branch triggers at most 5
\* reconnect attempts; the FAIL bit is set only by the handling of a
\* disconnect event that finds the counter at 5; and the handling of a
\* got-IP event sets the counter to 0 and then sets the CONNECTED bit.
C31_FailSetOnlyAtMaxRetry ==
  ("FAIL" \in s_wifi_event_group' /\ "FAIL" \notin s_wifi_event_group) =>
     /\ hpc = "idle" /\ evLoopQ # <<>>
     /\ Head(evLoopQ) = "STA_DISCONNECTED"
     /\ s_retry_num = 5
     /\ UNCHANGED <<s_retry_num, reconnects>>

C31_GotIpResetsAndConnects ==
  /\ (hpc = "idle" /\ hpc' = "gotip") =>
        s_retry_num' = 0 /\ UNCHANGED s_wifi_event_group
  /\ (hpc = "gotip" /\ hpc' = "idle") =>
        s_retry_num' = 0 /\ "CONNECTED" \in s_wifi_event_group'

C31_RetryCounterBounded ==
  /\ [](s_retry_num \in 0..5 /\ reconnects \in 0..5)
  /\ [][C31_FailSetOnlyAtMaxRetry /\ C31_GotIpResetsAndConnects]_vars

\* Witness of C31: five disconnects were answered by a reconnect attempt
\* and the sixth has set the FAIL bit, the main task still in its wait.
C31_Witness ==
  /\ "FAIL" \in s_wifi_event_group
  /\ s_retry_num = 5 /\ reconnects = 5
  /\ hpc = "idle" /\ wpc = "wait"

\* ------------------------------------------------------------------- C32
\* C32 as stated: wifi_init_sta reports failure only if both the primary
\* and the fallback attempt failed.
C32_FailureOnlyAfterBothAttempts ==
  (wpc = "returned" /\ staRet # ESP_OK) =>
     /\ Len(connectLog) = 2
     /\ connectLog[1].ret # ESP_OK /\ connectLog[2].ret # ESP_OK

\* C32, amended: wifi_connect returns ESP_OK exactly when the CONNECTED bit
\* is among the bits its wait returned, and otherwise stops WiFi and
\* returns ESP_FAIL; wifi_init_sta calls wifi_connect for the primary SSID
\* first and for the fallback SSID only after the primary attempt returned
\* a failure; it returns ESP_OK when the last attempt succeeded, and a
\* failure either before any attempt (esp_wifi_init failed) or after both
\* attempts failed.
C32_ConnectResultAndFallbackOrder ==
  /\ \A i \in 1..Len(connectLog) :
        /\ connectLog[i].ret = ESP_OK <=> "CONNECTED" \in connectLog[i].bits
        /\ connectLog[i].ret # ESP_OK =>
              connectLog[i].ret = ESP_FAIL /\ connectLog[i].stopped
        /\ connectLog[i].ret = ESP_OK => ~connectLog[i].stopped
        /\ connectLog[i].ssid = IF i = 1 THEN "primary" ELSE "fallback"
  /\ Len(connectLog) <= 2
  /\ Len(connectLog) = 2 => connectLog[1].ret = ESP_FAIL
  /\ attempt = "fallback" =>
        Len(connectLog) >= 1 /\ connectLog[1].ret = ESP_FAIL
  /\ (wpc = "back" /\ ~connectLog[Len(connectLog)].stopped) => wifiOn
  /\ (wpc = "back" /\ connectLog[Len(connectLog)].stopped) => ~wifiOn
  /\ wpc = "returned" =>
        /\ staRet = ESP_OK <=>
              /\ connectLog # <<>>
              /\ connectLog[Len(connectLog)].ret = ESP_OK
        /\ staRet # ESP_OK =>
              \/ connectLog = <<>> /\ attempt = "none"
              \/ /\ Len(connectLog) = 2
                 /\ connectLog[1].ret = ESP_FAIL
                 /\ connectLog[2].ret = ESP_FAIL
                 /\ staRet = ESP_FAIL
  /\ wpc # "returned" => staRet = NoRet

\* Witness of C32: the primary attempt failed, the fallback attempt was
\* made and failed too, and wifi_init_sta returned ESP_FAIL.
C32_Witness ==
  /\ wpc = "returned" /\ staRet = ESP_FAIL
  /\ Len(connectLog) = 2
  /\ connectLog[1].ssid = "primary" /\ connectLog[2].ssid = "fallback"
  /\ ~wifiOn

\* ------------------------------------------------------------------- C33
\* The calls of one run of try_slave_ota are a begin, then writes, then an
\* end, then an activate; nothing follows a failed begin, only the end
\* follows a failed write, and the activate follows an end that succeeded
\* after writes that all succeeded.
C33_StepsInOrder ==
  LET n == Len(otaLog)
      ends == {i \in 1..n : otaLog[i].op = "end"}
      acts == {i \in 1..n : otaLog[i].op = "activate"}
  IN /\ n > 0 => otaLog[1].op = "begin"
     /\ \A i \in 2..n : otaLog[i].op # "begin"
     /\ n > 1 => otaLog[1].ret = ESP_OK
     /\ \A i \in 1..n : otaLog[i].op = "write" =>
           /\ \A j \in 2..i : otaLog[j].op = "write"
           /\ \A j \in 2..(i - 1) : otaLog[j].ret = ESP_OK
     /\ Cardinality(ends) <= 1 /\ Cardinality(acts) <= 1
     /\ \A i \in ends : i = n \/ (i = n - 1 /\ otaLog[n].op = "activate")
     /\ \A i \in acts :
           /\ i = n /\ n >= 3
           /\ otaLog[n - 1].op = "end"
           /\ \A j \in 1..(n - 1) : otaLog[j].ret = ESP_OK

\* The begin is called only with the partition present and the image magic
\* in its first byte.
C33_BeginOnlyWithMagic ==
  (otaLog = <<>> /\ otaLog' # <<>>) =>
     partPresent /\ flashFirst = 233

\* C33: in try_slave_ota the OTA steps occur only in the order begin, write
\* (zero or more), end, activate: no write happens unless begin succeeded,
\* activate is invoked only if begin, every write and end all succeeded,
\* and OTA is skipped entirely (no begin) when the slave_fw partition is
\* missing or its first byte is not the image magic 0xE9.
C33_OtaOrderAndSkip ==
  []C33_StepsInOrder /\ [][C33_BeginOnlyWithMagic]_vars

\* ------------------------------------------------------------------- C34
\* The partition is erased, and the host restarted, only in a run whose
\* last call was an activate that succeeded; no other step changes the
\* flash or begins a boot.
C34_EraseRestartOnlyAfterActivate ==
  /\ (flashFirst' # flashFirst \/ opc' = "restart" \/ boots' # boots) =>
        /\ otaLog # <<>>
        /\ otaLog[Len(otaLog)] = [op |-> "activate", ret |-> ESP_OK]
  /\ opc' = "returned" => UNCHANGED <<flashFirst, boots>>

\* A boot that follows a successful OTA makes no OTA call.
C34_NoOtaAfterSuccess ==
  (otaOkBoot # 0 /\ boots > otaOkBoot) => otaLog = <<>>

\* C34: in try_slave_ota the slave_fw partition is erased and the host
\* restarted only after OTA activate succeeded; on every failure path the
\* partition is left untouched and the host is not restarted; and after a
\* successful OTA the next boot finds no image magic and skips OTA, so a
\* flashed image triggers at most one OTA and there is no OTA/reboot loop.
C34_EraseOnlyAfterActivateNoLoop ==
  []C34_NoOtaAfterSuccess /\ [][C34_EraseRestartOnlyAfterActivate]_vars

\* ------------------------------------------------------------------- C35
\* The writes the flasher has issued, in order.
C35_Writes == SelectSeq(fLog, LAMBDA e : e.op = "write")

\* The writes are contiguous from offset 0 and in ascending order, each of
\* 1..1400 bytes inside the image, and only the last of them may have
\* failed; once the loop has been left without a failure they end at the
\* image's last byte (their lengths sum to its size).
C35_ChunksCoverImage ==
  LET w == C35_Writes
      n == Len(w)
  IN /\ n > 0 => w[1].off = 0
     /\ \A i \in 1..n :
           /\ w[i].len \in 1..1400
           /\ w[i].off + w[i].len <= fwSize
           /\ i < n => w[i].ret = ESP_OK /\ w[i + 1].off = w[i].off + w[i].len
     /\ n * 1400 < fwSize + 1400
     /\ (fpc \in {"end", "activate"}
           \/ (fpc = "done" /\ fLog[Len(fLog)].op \in {"end", "activate"})) =>
           /\ \A i \in 1..n : w[i].ret = ESP_OK
           /\ IF n = 0 THEN fwSize = 0
                        ELSE w[n].off + w[n].len = fwSize

\* A failed write is the last call the flasher makes: the loop is left at
\* once and neither end nor activate follows.
C35_FailedWriteAborts ==
  \A i \in 1..Len(fLog) :
     (fLog[i].op = "write" /\ fLog[i].ret # ESP_OK) =>
        i = Len(fLog) /\ fpc = "done"

\* C35: the OTA flasher's chunked write loop terminates for every firmware
\* size; when no write fails the chunks are contiguous, in ascending
\* offset order, each of length 1..1400, and together cover the embedded
\* firmware exactly once (their lengths sum to the firmware size); the
\* first failed write aborts the loop and neither OTA end nor OTA activate
\* is issued afterwards.
C35_ChunkLoopCoversAndTerminates ==
  /\ [](C35_ChunksCoverImage /\ C35_FailedWriteAborts)
  /\ <>(fpc = "done")

\* Witness of C35: an image of two whole chunks and one byte has been sent
\* in three writes, the last of one byte, and activated.
C35_Witness ==
  /\ fpc = "done" /\ fwSize = 2801
  /\ Len(C35_Writes) = 3 /\ C35_Writes[3].len = 1
  /\ fLog[Len(fLog)] = [op |-> "activate", ret |-> ESP_OK, off |-> 0, len |-> 0]

\* ------------------------------------------------------------------- C36
\* Positions in bLog of a given entry.
C36_At(what) == {i \in 1..Len(bLog) : bLog[i] = what}

\* Whether the statement after free(cmd_buf) has been reached.
C36_PastFree == bpc \in {"test", "wait"} \/ (bpc = "done" /\ C36_At("send") # {})

\* C36: in wifi_raw_80211_tx the command buffer allocated for the Command
\* Record is released exactly once on every path after a successful
\* allocation (send success, send failure), before the wait begins, and is
\* never referenced after the send returns; on allocation failure the call
\* returns ESP_ERR_NO_MEM without sending and without clearing the signal.
C36_BufferFreedOnceAfterSend ==
  /\ Cardinality(C36_At("malloc")) <= 1
  /\ Cardinality(C36_At("free")) <= Cardinality(C36_At("malloc"))
  /\ Cardinality(C36_At("send")) <= 1
  /\ cmd_buf = "held" <=> (C36_At("malloc") # {} /\ C36_At("free") = {})
  /\ cmd_buf = "freed" <=> C36_At("free") # {}
  /\ C36_PastFree => cmd_buf = "freed" /\ Cardinality(C36_At("free")) = 1
  /\ (bpc = "done" /\ C36_At("malloc") # {}) => cmd_buf = "freed"
  /\ \A s \in C36_At("send") :
        /\ \A i \in 1..Len(bLog) :
              bLog[i] \in {"store", "send"} /\ i # s => i < s
        /\ \A f \in C36_At("free") : f = s + 1
        /\ \A w \in C36_At("wait") :
              C36_At("free") # {} /\ \A f \in C36_At("free") : f < w
  /\ C36_At("wait") # {} => C36_At("send") # {} /\ bSendRet = ESP_OK
  /\ (bpc = "done" /\ C36_At("send") # {} /\ bSendRet # ESP_OK) =>
        bRet = bSendRet /\ C36_At("wait") = {}
  /\ C36_At("malloc_null") # {} =>
        /\ bLog = << "malloc_null" >>
        /\ bpc = "done" /\ bRet = ESP_ERR_NO_MEM
        /\ cmd_buf = NULL

\* Witness of C36: the transport refused the record; the block was
\* released after the send and the call returned the transport's error
\* without waiting.
C36_Witness ==
  /\ bpc = "done" /\ bRet = ESP_ERR_INVALID_STATE
  /\ bLog = << "malloc", "store", "clear", "send", "free" >>
  /\ cmd_buf = "freed"

====
